---- MODULE Spec2Model ----
(***************************************************************************)
(* Model of the GitIssue Bridge services:                                  *)
(*   - GitHubAuthManager (src/src/auth/githubAuthManager.ts)               *)
(*   - WorkspaceTrustManager (src/src/utils/workspaceTrustManager.ts)      *)
(*   - Logger (src/unnamed/part_004)                                       *)
(*   - ErrorHandler (src/unnamed/part_005)                                 *)
(* Every async method is split at its await points: the synchronous        *)
(* segment up to an await is one step, the continuation after the awaited  *)
(* host call settles is the next step.  Several calls may be in flight at  *)
(* once (one per caller slot) and interleave at the await points only.     *)
(***************************************************************************)
EXTENDS Integers, Sequences, FiniteSets, TLC

\* ------------------------------------------------------------------ bounds
NumCallers == 2
MaxRounds == 3
MaxLogCalls == 3
MaxFragments == 2
MaxDepth == 2
MaxPieces == 2

Callers == 1..NumCallers

\* ---------------------------------------------------------- host values
\* Sessions the identity provider can hand out.  s1/s2 are well formed;
\* sBadToken carries an accessToken the client constructor rejects;
\* sNoAccount has account: null (test "should handle invalid session data").
Sessions == {"s1", "s2", "sBadToken", "sNoAccount"}
Undefined == "undefined"
Rejected == "rejected"
Pending == "pending"

\* what an awaited getSession() can settle to
LookupOutcomes == Sessions \cup {Undefined, Rejected}

\* session.accessToken
AccessToken(s) ==
  CASE s = "s1" -> "ghp_1"
    [] s = "s2" -> "ghp_2"
    [] s = "sBadToken" -> "notAString"
    [] s = "sNoAccount" -> "ghp_4"

\* does session.account.label evaluate without a TypeError
AccountOk(s) == s # "sNoAccount"

\* does new Octokit({ auth: token }) return (TRUE) or throw (FALSE)
OctokitConstructs(token) == token # "notAString"

NoOctokit == [defined |-> FALSE, auth |-> "none"]
\* new Octokit({ auth: token })
NewOctokit(token) == [defined |-> TRUE, auth |-> token]

\* ------------------------------------------------------------------ state
VARIABLES
  currentSession,   \* GitHubAuthManager.currentSession
  octokit,          \* GitHubAuthManager.octokit
  op,               \* per caller: the method (or event handler) running
  pc,               \* per caller: the await point it is suspended at
  result,           \* per caller: what the call settled to
  isAuth,           \* per caller: ensureAuthenticated's local isAuth
  lookups,          \* per caller: getSession calls issued by this call
  notice            \* per caller: showInformationMessage of logout

authVars ==
  <<currentSession, octokit, op, pc, result, isAuth, lookups, notice>>

\* history of the calls in flight, kept to state the ordering of lookups
VARIABLES
  recording,        \* whether this history is kept in the behaviour at hand
  inFlight,         \* callers with a lookup in flight, in order of issue
  afterLogout,      \* per caller: logout() cleared the Session while the
                    \* lookup of this call was in flight
  overtaken,        \* per caller: a lookup issued after the one of this call
                    \* completed first and wrote the Session
  lastSettle        \* set by a step in which a lookup settles with one of
                    \* the two flags raised: whose it was, and the flags

raceVars == <<recording, inFlight, afterLogout, overtaken, lastSettle>>

\* the last step was not such a step
NoSettle == [by |-> 0, afterLogout |-> FALSE, overtaken |-> FALSE]

VARIABLES
  isTrusted,        \* vscode.workspace.isTrusted
  folders,          \* vscode.workspace.workspaceFolders
  tOp,              \* trust gate: public method called
  tpc,              \* trust gate: await point
  tResult,          \* trust gate: what the call settled to
  rounds,           \* invocations of ensureTrustedWorkspace in this call
  modals,           \* showWarningMessage calls in this call
  uriOpens,         \* openExternal calls in this call
  trustCmds,        \* executeCommand('workbench.trust.manage') calls
  errorMsgs,        \* showErrorMessage calls in this call
  selection         \* ensureTrustedWorkspace's local `selection`

trustVars == <<isTrusted, folders, tOp, tpc, tResult, rounds, modals,
               uriOpens, trustCmds, errorMsgs, selection>>

VARIABLES
  logLevel,         \* Logger.logLevel
  sink,             \* lines appended to the output channel, oldest first
  channelShown,     \* whether the output channel is shown
  logCall,          \* the Logger method called last, with its arguments
  logThrew,         \* whether that call raised
  formats,          \* formatMessage invocations so far
  logCalls          \* calls of Logger methods so far

logVars ==
  <<logLevel, sink, channelShown, logCall, logThrew, formats, logCalls>>

VARIABLES
  ehOp,             \* ErrorHandler: public method called
  ehPc,             \* ErrorHandler: where that call stands
  ehResult,         \* ErrorHandler: what the call returned or settled to
  opOutcome,        \* wrap / wrapAsync: how the wrapped operation ended
  hpc,              \* handle(): where its invocation stands
  hResult,          \* handle(): what its promise settled to
  handleCalls,      \* invocations of handle() in this call
  prompts,          \* show*Message calls in this call
  promptKind,       \* which show*Message function was called
  ehContext,        \* handle(): component and operation of its `context`
  ehMessage,        \* handle(): the message it passed to logger.error
  selectedAction    \* handle(): its local `selectedAction`

ehVars == <<ehOp, ehPc, ehResult, opOutcome, hpc, hResult, handleCalls,
            prompts, promptKind, ehContext, ehMessage, selectedAction>>

\* one application of a function of the program to an input
VARIABLES
  called,           \* the function applied, "none" before
  input,            \* its argument
  output            \* what it returned

pureVars == <<called, input, output>>

vars == <<authVars, raceVars, trustVars, logVars, ehVars, pureVars>>

\* what an action of one component leaves alone
nonAuthVars == <<trustVars, logVars, ehVars, pureVars>>
nonTrustVars == <<authVars, raceVars, logVars, ehVars, pureVars>>
nonLogVars == <<authVars, raceVars, trustVars, ehVars, pureVars>>
nonEhVars == <<authVars, raceVars, trustVars, pureVars>>
nonPureVars == <<authVars, raceVars, trustVars, ehVars>>

\* --------------------------------------------- GitHubAuthManager: options
AuthenticateOptions == [createIfNone |-> TRUE, silent |-> FALSE]
\* variant: the status check asks the provider to create a session
IsAuthenticatedOptionsPrompting == [createIfNone |-> TRUE, silent |-> TRUE]
IsAuthenticatedOptions == [createIfNone |-> FALSE, silent |-> TRUE]
RefreshSessionOptions == [createIfNone |-> FALSE, silent |-> FALSE]

\* a getSession call issued by function `by`, not yet settled
Lookup(by, opts) ==
  [by |-> by, createIfNone |-> opts.createIfNone, silent |-> opts.silent,
   outcome |-> Pending]

\* the log with its last (in flight) lookup settled to outcome o
Settle(log, o) == [log EXCEPT ![Len(log)].outcome = o]

\* ------------------------------------- GitHubAuthManager: method bodies
\* Each body maps (awaited outcome, fields before) to the fields after and
\* the returned value; ret = Rejected means the promise rejects.

\* variant: the catch block logs and leaves the fields as they are
RefreshSessionCatchKeeps(cs, oc) ==
  [cs |-> cs, oc |-> oc, ret |-> "void"]

\* catch block of refreshSession
RefreshSessionCatch(cs, oc) ==
  [cs |-> Undefined, oc |-> NoOctokit, ret |-> "void"]

\* variant: a refresh never replaces a session that is already held
RefreshSessionResumeKeepsHeld(o, cs, oc) ==
  IF o = Rejected THEN RefreshSessionCatch(cs, oc)
  ELSE IF cs # Undefined THEN [cs |-> cs, oc |-> oc, ret |-> "void"]
  ELSE IF o = Undefined THEN [cs |-> Undefined, oc |-> NoOctokit, ret |-> "void"]
  ELSE IF ~OctokitConstructs(AccessToken(o)) THEN RefreshSessionCatch(o, oc)
  ELSE [cs |-> o, oc |-> NewOctokit(AccessToken(o)), ret |-> "void"]

\* continuation of refreshSession after the await
RefreshSessionResume(o, cs, oc) ==
  IF o = Rejected THEN RefreshSessionCatch(cs, oc)
  ELSE IF o = Undefined THEN [cs |-> Undefined, oc |-> NoOctokit, ret |-> "void"]
  ELSE IF ~OctokitConstructs(AccessToken(o)) THEN RefreshSessionCatch(o, oc)
  ELSE [cs |-> o, oc |-> NewOctokit(AccessToken(o)), ret |-> "void"]

\* variant: the error is rethrown after the fields are cleared
AuthenticateCatchRethrows(cs, oc) ==
  [cs |-> Undefined, oc |-> NoOctokit, ret |-> Rejected]

\* catch block of authenticate
AuthenticateCatch(cs, oc) ==
  [cs |-> Undefined, oc |-> NoOctokit, ret |-> "false"]

\* variant: the session found is reported and not stored
AuthenticateResumeReadOnly(o, cs, oc) ==
  IF o = Rejected THEN AuthenticateCatch(cs, oc)
  ELSE IF o = Undefined THEN [cs |-> cs, oc |-> oc, ret |-> "false"]
  ELSE [cs |-> cs, oc |-> oc, ret |-> "true"]

\* continuation of authenticate after the await
AuthenticateResume(o, cs, oc) ==
  IF o = Rejected THEN AuthenticateCatch(cs, oc)
  ELSE IF o = Undefined THEN [cs |-> cs, oc |-> oc, ret |-> "false"]
  ELSE IF ~OctokitConstructs(AccessToken(o)) THEN AuthenticateCatch(o, oc)
  ELSE IF ~AccountOk(o) THEN AuthenticateCatch(o, NewOctokit(AccessToken(o)))
  ELSE [cs |-> o, oc |-> NewOctokit(AccessToken(o)), ret |-> "true"]

\* catch block of isAuthenticated
IsAuthenticatedCatch(cs, oc) ==
  [cs |-> cs, oc |-> oc, ret |-> "false"]

\* variant: a pure status read that never adopts the session it found
IsAuthenticatedResumeReadOnly(o, cs, oc) ==
  IF o = Rejected THEN IsAuthenticatedCatch(cs, oc)
  ELSE IF o = Undefined THEN [cs |-> cs, oc |-> oc, ret |-> "false"]
  ELSE [cs |-> cs, oc |-> oc, ret |-> "true"]

\* variant: the cached session follows what the lookup found
IsAuthenticatedResumeReplaces(o, cs, oc) ==
  IF o = Rejected THEN IsAuthenticatedCatch(cs, oc)
  ELSE IF o = Undefined THEN [cs |-> Undefined, oc |-> NoOctokit, ret |-> "false"]
  ELSE IF ~OctokitConstructs(AccessToken(o)) THEN IsAuthenticatedCatch(o, oc)
  ELSE [cs |-> o, oc |-> NewOctokit(AccessToken(o)), ret |-> "true"]

\* continuation of isAuthenticated after the await
IsAuthenticatedResume(o, cs, oc) ==
  IF o = Rejected THEN IsAuthenticatedCatch(cs, oc)
  ELSE IF o = Undefined THEN [cs |-> cs, oc |-> oc, ret |-> "false"]
  ELSE IF cs # Undefined THEN [cs |-> cs, oc |-> oc, ret |-> "true"]
  ELSE IF ~OctokitConstructs(AccessToken(o)) THEN IsAuthenticatedCatch(o, oc)
  ELSE [cs |-> o, oc |-> NewOctokit(AccessToken(o)), ret |-> "true"]

\* catch block of logout
LogoutCatch(cs, oc) ==
  [cs |-> cs, oc |-> oc, ret |-> "false"]

\* variant: logging out without a session is reported as a failure
LogoutStartStrict(cs, oc) ==
  IF cs = Undefined THEN [cs |-> cs, oc |-> oc, ret |-> "false"]
  ELSE IF ~AccountOk(cs) THEN LogoutCatch(cs, oc)
  ELSE [cs |-> Undefined, oc |-> NoOctokit, ret |-> Pending]

\* variant: the client is still held while the notice is shown
LogoutStartKeepsClient(cs, oc) ==
  IF cs = Undefined THEN [cs |-> cs, oc |-> oc, ret |-> "true"]
  ELSE IF ~AccountOk(cs) THEN LogoutCatch(cs, oc)
  ELSE [cs |-> Undefined, oc |-> oc, ret |-> Pending]

\* synchronous part of logout, up to the await of the notice;
\* ret = Pending means the notice is being shown
LogoutStart(cs, oc) ==
  IF cs = Undefined THEN [cs |-> cs, oc |-> oc, ret |-> "true"]
  ELSE IF ~AccountOk(cs) THEN LogoutCatch(cs, oc)
  ELSE [cs |-> Undefined, oc |-> NoOctokit, ret |-> Pending]

\* continuation of logout after the notice settled
LogoutResume(shown, cs, oc) ==
  IF shown THEN [cs |-> cs, oc |-> oc, ret |-> "true"]
  ELSE LogoutCatch(cs, oc)

\* getOctokit()
getOctokit == octokit

\* getUsername(): the label, undefined, or a rejection (account is null)
getUsername ==
  IF currentSession = Undefined THEN Undefined
  ELSE IF ~AccountOk(currentSession) THEN Rejected
  ELSE <<"label", currentSession>>

\* ------------------------------------------------------------- Init
AuthInit ==
  /\ currentSession = Undefined
  /\ octokit = NoOctokit
  /\ op = [p \in Callers |-> "none"]
  /\ pc = [p \in Callers |-> "idle"]
  /\ result = [p \in Callers |-> "none"]
  /\ isAuth = [p \in Callers |-> "none"]
  /\ lookups = [p \in Callers |-> <<>>]
  /\ notice = [p \in Callers |-> "none"]
  /\ recording = FALSE
  /\ inFlight = <<>>
  /\ afterLogout = [p \in Callers |-> FALSE]
  /\ overtaken = [p \in Callers |-> FALSE]
  /\ lastSettle = NoSettle


\* --------------------------------------- GitHubAuthManager: the actions
\* A caller invokes a method only when its previous call was consumed.
Idle(p) == pc[p] = "idle"

\* write the fields a method body produced
Assign(r) ==
  /\ currentSession' = r.cs
  /\ octokit' = r.oc

\* whether the continuation of `method` writes the Session field when its
\* lookup settled to o while cs was held
Writes(method, o, cs) ==
  CASE method = "refreshSession" -> TRUE
    [] method = "authenticate" -> o # Undefined
    [] method = "isAuthenticated" -> o \in Sessions /\ cs = Undefined

\* caller p issues a lookup
IssueLookup(p) ==
  IF ~recording THEN UNCHANGED raceVars
  ELSE
  /\ inFlight' = Append(inFlight, p)
  /\ afterLogout' = [afterLogout EXCEPT ![p] = FALSE]
  /\ overtaken' = [overtaken EXCEPT ![p] = FALSE]
  /\ lastSettle' = NoSettle
  /\ UNCHANGED recording

\* the lookup of caller p settles to o and `method` resumes
CompleteLookup(p, method, o) ==
  IF ~recording THEN UNCHANGED raceVars
  ELSE
  /\ UNCHANGED recording
  /\ inFlight' = SelectSeq(inFlight, LAMBDA q : q # p)
  /\ lastSettle' = IF afterLogout[p] \/ overtaken[p]
                     THEN [by |-> p, afterLogout |-> afterLogout[p],
                           overtaken |-> overtaken[p]]
                     ELSE NoSettle
  /\ afterLogout' = [afterLogout EXCEPT ![p] = FALSE]
  /\ overtaken' =
       [q \in Callers |->
          IF q = p THEN FALSE
          ELSE overtaken[q]
                 \/ /\ Writes(method, o, currentSession)
                    \* q's lookup was issued before p's
                    /\ \E i, j \in 1..Len(inFlight) :
                          inFlight[i] = q /\ inFlight[j] = p /\ i < j]

\* logout() returned early, raised, or cleared the Session
LogoutRuns(cleared) ==
  IF ~recording THEN UNCHANGED raceVars
  ELSE
  /\ UNCHANGED recording
  /\ afterLogout' =
       IF cleared
         THEN [q \in Callers |->
                 afterLogout[q] \/ \E i \in 1..Len(inFlight) : inFlight[i] = q]
         ELSE afterLogout
  /\ lastSettle' = NoSettle
  /\ UNCHANGED <<inFlight, overtaken>>

\* a step that issues and settles no lookup
NoLookup ==
  /\ lastSettle' = NoSettle
  /\ UNCHANGED <<recording, inFlight, afterLogout, overtaken>>

\* authenticate(): runs to `await getSession(..., { createIfNone: true })`
AuthenticateCall(p) ==
  /\ Idle(p)
  /\ UNCHANGED nonAuthVars
  /\ IssueLookup(p)
  /\ op' = [op EXCEPT ![p] = "authenticate"]
  /\ pc' = [pc EXCEPT ![p] = "authAwait"]
  /\ lookups' = [lookups EXCEPT ![p] = <<Lookup("authenticate", AuthenticateOptions)>>]
  /\ result' = [result EXCEPT ![p] = Pending]
  /\ UNCHANGED <<currentSession, octokit, isAuth, notice>>

\* the interactive lookup settles; authenticate() (called directly or from
\* ensureAuthenticated) runs to its return
AuthenticateSettle(p) ==
  /\ pc[p] = "authAwait"
  /\ UNCHANGED nonAuthVars
  /\ \E o \in LookupOutcomes :
       LET r == AuthenticateResume(o, currentSession, octokit) IN
         /\ Assign(r)
         /\ CompleteLookup(p, "authenticate", o)
         /\ lookups' = [lookups EXCEPT ![p] = Settle(@, o)]
         /\ result' = [result EXCEPT ![p] = r.ret]
         /\ pc' = [pc EXCEPT ![p] = "done"]
  /\ UNCHANGED <<op, isAuth, notice>>

\* isAuthenticated(): runs to `await getSession(..., { createIfNone: false, silent: true })`
IsAuthenticatedCall(p) ==
  /\ Idle(p)
  /\ UNCHANGED nonAuthVars
  /\ IssueLookup(p)
  /\ op' = [op EXCEPT ![p] = "isAuthenticated"]
  /\ pc' = [pc EXCEPT ![p] = "isAuthAwait"]
  /\ lookups' = [lookups EXCEPT ![p] = <<Lookup("isAuthenticated", IsAuthenticatedOptions)>>]
  /\ result' = [result EXCEPT ![p] = Pending]
  /\ UNCHANGED <<currentSession, octokit, isAuth, notice>>

\* ensureAuthenticated(): calls isAuthenticated(), which runs to its await
EnsureAuthenticatedCall(p) ==
  /\ Idle(p)
  /\ UNCHANGED nonAuthVars
  /\ IssueLookup(p)
  /\ op' = [op EXCEPT ![p] = "ensureAuthenticated"]
  /\ pc' = [pc EXCEPT ![p] = "isAuthAwait"]
  /\ lookups' = [lookups EXCEPT ![p] = <<Lookup("isAuthenticated", IsAuthenticatedOptions)>>]
  /\ result' = [result EXCEPT ![p] = Pending]
  /\ UNCHANGED <<currentSession, octokit, isAuth, notice>>

\* the silent lookup settles; isAuthenticated() runs to its return.  Called
\* directly the caller gets the result; called from ensureAuthenticated the
\* result is delivered to `await this.isAuthenticated()`.
IsAuthenticatedSettle(p) ==
  /\ pc[p] = "isAuthAwait"
  /\ UNCHANGED nonAuthVars
  /\ \E o \in LookupOutcomes :
       LET r == IsAuthenticatedResume(o, currentSession, octokit) IN
         /\ Assign(r)
         /\ CompleteLookup(p, "isAuthenticated", o)
         /\ lookups' = [lookups EXCEPT ![p] = Settle(@, o)]
         /\ IF op[p] = "ensureAuthenticated"
              THEN /\ isAuth' = [isAuth EXCEPT ![p] = r.ret]
                   /\ pc' = [pc EXCEPT ![p] = "ensureAwait"]
                   /\ UNCHANGED result
              ELSE /\ result' = [result EXCEPT ![p] = r.ret]
                   /\ pc' = [pc EXCEPT ![p] = "done"]
                   /\ UNCHANGED isAuth
  /\ UNCHANGED <<op, notice>>

\* variant: the interactive flow is started whatever isAuth is
EnsureAuthenticatedDecideAlwaysEscalates(ia) == "escalate"

\* what ensureAuthenticated does with isAuth: "return" it, or "escalate"
EnsureAuthenticatedDecide(ia) ==
  IF ia = "true" THEN "return" ELSE "escalate"

\* ensureAuthenticated() resumes with isAuth: returns true, or calls
\* authenticate(), which runs to its await
EnsureAuthenticatedResume(p) ==
  /\ pc[p] = "ensureAwait"
  /\ UNCHANGED nonAuthVars
  /\ IF EnsureAuthenticatedDecide(isAuth[p]) = "return"
       THEN /\ result' = [result EXCEPT ![p] = "true"]
            /\ pc' = [pc EXCEPT ![p] = "done"]
            /\ UNCHANGED lookups
            /\ NoLookup
       ELSE /\ lookups' = [lookups EXCEPT ![p] =
                             Append(@, Lookup("authenticate", AuthenticateOptions))]
            /\ pc' = [pc EXCEPT ![p] = "authAwait"]
            /\ UNCHANGED result
            /\ IssueLookup(p)
  /\ UNCHANGED <<currentSession, octokit, op, isAuth, notice>>

\* onDidChangeSessions fires for provider 'github': the handler calls
\* refreshSession(), which runs to `await getSession(..., { createIfNone: false })`
SessionChangeGithub(p) ==
  /\ Idle(p)
  /\ UNCHANGED nonAuthVars
  /\ IssueLookup(p)
  /\ op' = [op EXCEPT ![p] = "sessionChange"]
  /\ pc' = [pc EXCEPT ![p] = "refreshAwait"]
  /\ lookups' = [lookups EXCEPT ![p] = <<Lookup("refreshSession", RefreshSessionOptions)>>]
  /\ result' = [result EXCEPT ![p] = Pending]
  /\ UNCHANGED <<currentSession, octokit, isAuth, notice>>

\* onDidChangeSessions fires for another provider: the handler does nothing
SessionChangeOther(p) ==
  /\ Idle(p)
  /\ UNCHANGED nonAuthVars
  /\ NoLookup
  /\ op' = [op EXCEPT ![p] = "sessionChangeOther"]
  /\ pc' = [pc EXCEPT ![p] = "done"]
  /\ lookups' = [lookups EXCEPT ![p] = <<>>]
  /\ result' = [result EXCEPT ![p] = "void"]
  /\ UNCHANGED <<currentSession, octokit, isAuth, notice>>

\* the refresh lookup settles; refreshSession() and the handler complete
RefreshSessionSettle(p) ==
  /\ pc[p] = "refreshAwait"
  /\ UNCHANGED nonAuthVars
  /\ \E o \in LookupOutcomes :
       LET r == RefreshSessionResume(o, currentSession, octokit) IN
         /\ Assign(r)
         /\ CompleteLookup(p, "refreshSession", o)
         /\ lookups' = [lookups EXCEPT ![p] = Settle(@, o)]
         /\ result' = [result EXCEPT ![p] = r.ret]
         /\ pc' = [pc EXCEPT ![p] = "done"]
  /\ UNCHANGED <<op, isAuth, notice>>

\* logout(): runs to its early return, its catch, or
\* `await vscode.window.showInformationMessage(...)`
LogoutCall(p) ==
  /\ Idle(p)
  /\ UNCHANGED nonAuthVars
  /\ LET r == LogoutStart(currentSession, octokit) IN
       /\ Assign(r)
       /\ LogoutRuns(r.ret = Pending)
       /\ op' = [op EXCEPT ![p] = "logout"]
       /\ lookups' = [lookups EXCEPT ![p] = <<>>]
       /\ result' = [result EXCEPT ![p] = r.ret]
       /\ IF r.ret = Pending
            THEN /\ pc' = [pc EXCEPT ![p] = "noticeAwait"]
                 /\ notice' = [notice EXCEPT ![p] = Pending]
            ELSE /\ pc' = [pc EXCEPT ![p] = "done"]
                 /\ UNCHANGED notice
  /\ UNCHANGED isAuth

\* the notice settles (shown, or showInformationMessage rejected)
LogoutSettle(p) ==
  /\ pc[p] = "noticeAwait"
  /\ UNCHANGED nonAuthVars
  /\ NoLookup
  /\ \E shown \in BOOLEAN :
       LET r == LogoutResume(shown, currentSession, octokit) IN
         /\ Assign(r)
         /\ notice' = [notice EXCEPT ![p] = IF shown THEN "shown" ELSE Rejected]
         /\ result' = [result EXCEPT ![p] = r.ret]
         /\ pc' = [pc EXCEPT ![p] = "done"]
  /\ UNCHANGED <<op, isAuth, lookups>>

\* the caller consumes the settled promise and is free to call again
Return(p) ==
  /\ pc[p] = "done"
  /\ UNCHANGED nonAuthVars
  /\ op' = [op EXCEPT ![p] = "none"]
  /\ pc' = [pc EXCEPT ![p] = "idle"]
  /\ result' = [result EXCEPT ![p] = "none"]
  /\ isAuth' = [isAuth EXCEPT ![p] = "none"]
  /\ lookups' = [lookups EXCEPT ![p] = <<>>]
  /\ notice' = [notice EXCEPT ![p] = "none"]
  /\ NoLookup
  /\ UNCHANGED <<currentSession, octokit>>

Next ==
  \E p \in Callers :
    \/ AuthenticateCall(p)
    \/ AuthenticateSettle(p)
    \/ IsAuthenticatedCall(p)
    \/ EnsureAuthenticatedCall(p)
    \/ IsAuthenticatedSettle(p)
    \/ EnsureAuthenticatedResume(p)
    \/ SessionChangeGithub(p)
    \/ SessionChangeOther(p)
    \/ RefreshSessionSettle(p)
    \/ LogoutCall(p)
    \/ LogoutSettle(p)
    \/ Return(p)


\* ------------------------------------------ WorkspaceTrustManager: values
\* vscode.workspace.workspaceFolders: undefined, [] or one open folder
FolderStates == {"undefined", "empty", "one"}

\* what the modal can settle to: a button, dismissal, or a rejection
ModalOutcomes == {"Trust Workspace", "Learn More", "Cancel", Undefined, Rejected}

\* isTrusted()
IsTrustedRead(flag) == flag

\* hasWorkspace()
hasWorkspace(f) == f = "one"

\* variant: the flag is not consulted, the modal is always presented
EnsureTrustedDecideAlwaysPrompts(trusted) == "prompt"

\* first statement of ensureTrustedWorkspace: "return" true, or "prompt"
EnsureTrustedDecide(trusted) ==
  IF IsTrustedRead(trusted) THEN "return" ELSE "prompt"

\* variant: a dismissed modal is taken as consent
SelectionBranchDismissalTrusts(sel) ==
  IF sel = Rejected THEN "reject"
  ELSE IF sel = "Learn More" THEN "openDocs"
  ELSE IF sel = "Trust Workspace" \/ sel = Undefined THEN "manageTrust"
  ELSE "cancel"

\* variant: "Learn More" ends the call like "Cancel"
SelectionBranchLearnMoreReturns(sel) ==
  IF sel = Rejected THEN "reject"
  ELSE IF sel = "Trust Workspace" THEN "manageTrust"
  ELSE "cancel"

\* what ensureTrustedWorkspace does with the user's selection
SelectionBranch(sel) ==
  IF sel = Rejected THEN "reject"
  ELSE IF sel = "Learn More" THEN "openDocs"
  ELSE IF sel = "Trust Workspace" THEN "manageTrust"
  ELSE "cancel"

TrustInit ==
  /\ isTrusted \in BOOLEAN
  /\ folders \in FolderStates
  /\ tOp = "none"
  /\ tpc = "idle"
  /\ tResult = "none"
  /\ rounds = 0
  /\ modals = 0
  /\ uriOpens = 0
  /\ trustCmds = 0
  /\ errorMsgs = 0
  /\ selection = "none"

\* --------------------------------------- WorkspaceTrustManager: actions
\* one invocation of ensureTrustedWorkspace(), up to its first await or return;
\* the invocation's `selection` is not assigned yet
EnsureTrustedRound ==
  /\ rounds' = rounds + 1
  /\ selection' = "none"
  /\ IF EnsureTrustedDecide(isTrusted) = "return"
       THEN /\ tpc' = "done"
            /\ tResult' = "true"
            /\ UNCHANGED modals
       ELSE /\ tpc' = "modalAwait"
            /\ modals' = modals + 1
            /\ tResult' = Pending
  /\ UNCHANGED <<isTrusted, folders, uriOpens, trustCmds, errorMsgs>>

\* a caller invokes ensureTrustedWorkspace()
EnsureTrustedCall ==
  /\ tpc = "idle"
  /\ UNCHANGED nonTrustVars
  /\ tOp' = "ensureTrustedWorkspace"
  /\ EnsureTrustedRound

\* a caller invokes validateWorkspace()
ValidateWorkspaceCall ==
  /\ tpc = "idle"
  /\ UNCHANGED nonTrustVars
  /\ tOp' = "validateWorkspace"
  /\ IF ~hasWorkspace(folders)
       THEN /\ errorMsgs' = errorMsgs + 1
            /\ tpc' = "errorMsgAwait"
            /\ tResult' = Pending
            /\ UNCHANGED <<isTrusted, folders, rounds, modals, uriOpens,
                           trustCmds, selection>>
       ELSE EnsureTrustedRound

\* showErrorMessage of validateWorkspace settles
ErrorMsgSettle ==
  /\ tpc = "errorMsgAwait"
  /\ UNCHANGED nonTrustVars
  /\ \E ok \in BOOLEAN :
       tResult' = IF ok THEN "false" ELSE Rejected
  /\ tpc' = "done"
  /\ UNCHANGED <<isTrusted, folders, tOp, rounds, modals, uriOpens, trustCmds,
                 errorMsgs, selection>>

\* the modal settles: `selection` is assigned unless the await rejects
ModalSettle ==
  /\ tpc = "modalAwait"
  /\ UNCHANGED nonTrustVars
  /\ \E sel \in ModalOutcomes :
       LET b == SelectionBranch(sel) IN
       /\ selection' = IF sel = Rejected THEN selection ELSE sel
       /\ CASE b = "reject" ->
                  /\ tpc' = "done"
                  /\ tResult' = Rejected
                  /\ UNCHANGED <<uriOpens, trustCmds>>
            [] b = "openDocs" ->
                  /\ rounds < MaxRounds
                  /\ uriOpens' = uriOpens + 1
                  /\ tpc' = "uriAwait"
                  /\ UNCHANGED <<tResult, trustCmds>>
            [] b = "manageTrust" ->
                  /\ trustCmds' = trustCmds + 1
                  /\ tpc' = "cmdAwait"
                  /\ UNCHANGED <<tResult, uriOpens>>
            [] b = "cancel" ->
                  /\ tpc' = "done"
                  /\ tResult' = "false"
                  /\ UNCHANGED <<uriOpens, trustCmds>>
  /\ UNCHANGED <<isTrusted, folders, tOp, rounds, modals, errorMsgs>>

\* openExternal settles: `return this.ensureTrustedWorkspace()` starts the
\* next round, or the rejection propagates
UriSettle ==
  /\ tpc = "uriAwait"
  /\ UNCHANGED nonTrustVars
  /\ \/ /\ EnsureTrustedRound
        /\ UNCHANGED tOp
     \/ /\ tpc' = "done"
        /\ tResult' = Rejected
        /\ UNCHANGED <<isTrusted, folders, tOp, rounds, modals, uriOpens,
                       trustCmds, errorMsgs, selection>>

\* executeCommand('workbench.trust.manage') settles; the host's dialog may or
\* may not have granted trust by then
CmdSettle ==
  /\ tpc = "cmdAwait"
  /\ UNCHANGED nonTrustVars
  /\ \E ok \in BOOLEAN, granted \in BOOLEAN :
       /\ tResult' = IF ok THEN "true" ELSE Rejected
       /\ isTrusted' = (isTrusted \/ granted)
  /\ tpc' = "done"
  /\ UNCHANGED <<folders, tOp, rounds, modals, uriOpens, trustCmds, errorMsgs,
                 selection>>

\* host: the user grants trust through the editor's own UI
GrantTrust ==
  /\ ~isTrusted
  /\ UNCHANGED nonTrustVars
  /\ isTrusted' = TRUE
  /\ UNCHANGED <<folders, tOp, tpc, tResult, rounds, modals, uriOpens,
                 trustCmds, errorMsgs, selection>>

\* the caller consumes the settled promise
TrustReturn ==
  /\ tpc = "done"
  /\ UNCHANGED nonTrustVars
  /\ tOp' = "none"
  /\ tpc' = "idle"
  /\ tResult' = "none"
  /\ rounds' = 0
  /\ modals' = 0
  /\ uriOpens' = 0
  /\ trustCmds' = 0
  /\ errorMsgs' = 0
  /\ selection' = "none"
  /\ UNCHANGED <<isTrusted, folders>>

TrustNext ==
  \/ EnsureTrustedCall
  \/ ValidateWorkspaceCall
  \/ ErrorMsgSettle
  \/ ModalSettle
  \/ UriSettle
  \/ CmdSettle
  \/ GrantTrust
  \/ TrustReturn

\* ----------------------------------------------------------- Logger: values
\* enum LogLevel
DEBUG == 0
INFO == 1
WARN == 2
ERROR == 3

LogLevels == {DEBUG, INFO, WARN, ERROR}

\* LogLevel[level]: the reverse mapping of the enum
LogLevelName(level) ==
  CASE level = DEBUG -> "DEBUG"
    [] level = INFO -> "INFO"
    [] level = WARN -> "WARN"
    [] level = ERROR -> "ERROR"

\* the level each logging method is guarded with
MethodLevel(method) ==
  CASE method = "debug" -> DEBUG
    [] method = "info" -> INFO
    [] method = "warn" -> WARN
    [] method = "error" -> ERROR

\* shapes of the `error` argument: omitted, an Error object, a string, an
\* object that serializes, a value that does not (a cyclic structure, a BigInt)
ErrorShapes == {"none", "Error", "string", "object", "cyclic"}

\* shapes of the `data` argument
DataShapes == {"none", "object", "cyclic"}

\* whether JSON.stringify(sanitizeObject(value)) returns
Serializes(shape) == shape # "cyclic"

\* the guard of debug / info / warn / error: `this.logLevel <= LogLevel.X`
LevelEnabled(method, level) == level <= MethodLevel(method)

\* formatMessage: what follows the first line of the record
formatMessage(data) ==
  IF data = "none" THEN "none"
  ELSE IF Serializes(data) THEN "data"
  ELSE "[Error formatting data]"

\* error(): the errorDetails it builds, or "throws" when building them raises
ErrorDetails(error) ==
  IF error = "Error" THEN "message and stack"
  ELSE IF error = "none" THEN "none"
  ELSE IF Serializes(error) THEN "json"
  ELSE "throws"

\* one call of debug / info / warn / error at minimum level `level`:
\* whether it raised, the lines it appended, the formatMessage calls it made
Log(method, error, data, level) ==
  IF ~LevelEnabled(method, level)
    THEN [threw |-> FALSE, lines |-> <<>>, formats |-> 0]
  ELSE IF method = "error" /\ ErrorDetails(error) = "throws"
    THEN [threw |-> TRUE, lines |-> <<>>, formats |-> 0]
  ELSE [threw |-> FALSE,
        lines |-> << [level |-> LogLevelName(MethodLevel(method)),
                      details |-> IF method = "error"
                                    THEN ErrorDetails(error) ELSE "none",
                      data |-> formatMessage(data)] >>,
        formats |-> 1]

NoLogCall ==
  [method |-> "none", error |-> "none", data |-> "none", level |-> "none"]

LoggerInit ==
  /\ logLevel = INFO
  /\ sink = <<>>
  /\ channelShown = FALSE
  /\ logCall = NoLogCall
  /\ logThrew = FALSE
  /\ formats = 0
  /\ logCalls = 0

\* ---------------------------------------------------------- Logger: actions
\* the effect of one call of a logging method on the Logger
LoggerWrites(method, error, data) ==
  LET r == Log(method, error, data, logLevel) IN
    /\ sink' = sink \o r.lines
    /\ formats' = formats + r.formats
    /\ logThrew' = r.threw
    /\ logCall' = [method |-> method, error |-> error, data |-> data,
                   level |-> "none"]
    /\ logCalls' = logCalls + 1

LoggerDebug ==
  /\ logCalls < MaxLogCalls
  /\ UNCHANGED nonLogVars
  /\ \E data \in DataShapes : LoggerWrites("debug", "none", data)
  /\ UNCHANGED <<logLevel, channelShown>>

LoggerInfo ==
  /\ logCalls < MaxLogCalls
  /\ UNCHANGED nonLogVars
  /\ \E data \in DataShapes : LoggerWrites("info", "none", data)
  /\ UNCHANGED <<logLevel, channelShown>>

LoggerWarn ==
  /\ logCalls < MaxLogCalls
  /\ UNCHANGED nonLogVars
  /\ \E data \in DataShapes : LoggerWrites("warn", "none", data)
  /\ UNCHANGED <<logLevel, channelShown>>

LoggerError ==
  /\ logCalls < MaxLogCalls
  /\ UNCHANGED nonLogVars
  /\ \E error \in ErrorShapes, data \in DataShapes :
       LoggerWrites("error", error, data)
  /\ UNCHANGED <<logLevel, channelShown>>

\* setLogLevel(level): the assignment, then this.info(...) under the new level
SetLogLevel ==
  /\ logCalls < MaxLogCalls
  /\ UNCHANGED nonLogVars
  /\ \E level \in LogLevels :
       LET r == Log("info", "none", "none", level) IN
         /\ logLevel' = level
         /\ sink' = sink \o r.lines
         /\ formats' = formats + r.formats
         /\ logThrew' = r.threw
         /\ logCall' = [method |-> "setLogLevel", error |-> "none",
                        data |-> "none", level |-> LogLevelName(level)]
         /\ logCalls' = logCalls + 1
  /\ UNCHANGED channelShown

\* show() / hide()
LoggerShow ==
  /\ UNCHANGED nonLogVars
  /\ channelShown' = TRUE
  /\ UNCHANGED <<logLevel, sink, logCall, logThrew, formats, logCalls>>

LoggerHide ==
  /\ UNCHANGED nonLogVars
  /\ channelShown' = FALSE
  /\ UNCHANGED <<logLevel, sink, logCall, logThrew, formats, logCalls>>

\* clear()
LoggerClear ==
  /\ UNCHANGED nonLogVars
  /\ sink' = <<>>
  /\ UNCHANGED <<logLevel, channelShown, logCall, logThrew, formats, logCalls>>

LoggerNext ==
  \/ LoggerDebug
  \/ LoggerInfo
  \/ LoggerWarn
  \/ LoggerError
  \/ SetLogLevel
  \/ LoggerShow
  \/ LoggerHide
  \/ LoggerClear

\* ----------------------------------------------------- ErrorHandler: values
\* enum ErrorSeverity
Severities == {"info", "warning", "error"}

\* the switch of handle(): which prompt function a severity selects
PromptFor(severity) ==
  CASE severity = "info" -> "showInformationMessage"
    [] severity = "warning" -> "showWarningMessage"
    [] severity = "error" -> "showErrorMessage"

\* what a prompt can settle to: an action, dismissal, or a rejection
PromptOutcomes == {"Show Logs", "Dismiss", Undefined, Rejected}

\* what a wrapped operation can return or resolve to
OpResults == {"v1", "v2", Undefined}

\* the template `Error in ${component} during ${operation}`
ErrorMessage(component, operation) ==
  LET \* `value || fallback` on a string or undefined
      orElse(value, fallback) ==
        IF value = Undefined \/ value = "" THEN fallback ELSE value
  IN <<"Error in ", orElse(component, "Unknown component"),
       " during ", orElse(operation, "Unknown operation")>>

\* variant: no wrapper waits for handle()
OnErrorNeverAwaits(method) == "void"

\* variant: every wrapper waits for handle()
OnErrorAlwaysAwaits(method) == "await"

\* how a public method treats the promise of handle(): wrap discards it
\* (`void this.handle(...)`), the others await it
OnError(method) == IF method = "wrap" THEN "void" ELSE "await"

\* what a public method returns once handle() has resolved
AfterHandle(method) ==
  CASE method = "handle" -> "void"
    [] method = "handleWithResult" -> "false"
    [] method = "wrapAsync" -> Undefined
    [] method = "wrap" -> Undefined

EhInit ==
  /\ ehOp = "none"
  /\ ehPc = "idle"
  /\ ehResult = "none"
  /\ opOutcome = "none"
  /\ hpc = "idle"
  /\ hResult = "none"
  /\ handleCalls = 0
  /\ prompts = 0
  /\ promptKind = "none"
  \* no invocation of handle() in the call at hand
  /\ ehContext = [component |-> "none", operation |-> "none"]
  /\ ehMessage = <<>>
  /\ selectedAction = "none"

\* ---------------------------------------------------- ErrorHandler: actions
\* handle(error, context, severity) up to its await, called by `method`:
\* logger.error(...), then the prompt is issued; a raise of logger.error
\* rejects the promise of handle() at once
HandleStart(method, error, metadata, severity) ==
  LET r == Log("error", error, metadata, logLevel) IN
    /\ handleCalls' = handleCalls + 1
    \* context?.component and context?.operation: a name, or undefined
    \* (no context, or a context without the field)
    /\ \E component \in {"GitHubAuthManager", Undefined},
       operation \in {"authenticate", Undefined} :
         /\ ehContext' = [component |-> component, operation |-> operation]
         /\ ehMessage' = ErrorMessage(component, operation)
    /\ selectedAction' = Undefined
    /\ LoggerWrites("error", error, metadata)
    /\ UNCHANGED <<logLevel, channelShown>>
    /\ IF r.threw
         THEN /\ hpc' = "done"
              /\ hResult' = Rejected
              /\ UNCHANGED <<prompts, promptKind>>
              /\ ehPc' = "done"
              /\ ehResult' = IF OnError(method) = "await"
                               THEN Rejected ELSE AfterHandle(method)
         ELSE /\ hpc' = "promptAwait"
              /\ hResult' = Pending
              /\ prompts' = prompts + 1
              /\ promptKind' = PromptFor(severity)
              /\ IF OnError(method) = "await"
                   THEN /\ ehPc' = "handleAwait"
                        /\ ehResult' = Pending
                   ELSE /\ ehPc' = "done"
                        /\ ehResult' = AfterHandle(method)

\* a caller invokes handle(error, context, severity)
HandleCall ==
  /\ ehPc = "idle"
  /\ logCalls < MaxLogCalls
  /\ UNCHANGED nonEhVars
  /\ ehOp' = "handle"
  /\ UNCHANGED opOutcome
  /\ \E error \in ErrorShapes, metadata \in DataShapes, severity \in Severities :
       HandleStart("handle", error, metadata, severity)

\* a caller invokes handleWithResult(error, context, severity)
HandleWithResultCall ==
  /\ ehPc = "idle"
  /\ logCalls < MaxLogCalls
  /\ UNCHANGED nonEhVars
  /\ ehOp' = "handleWithResult"
  /\ UNCHANGED opOutcome
  /\ \E error \in ErrorShapes, metadata \in DataShapes, severity \in Severities :
       HandleStart("handleWithResult", error, metadata, severity)

\* a caller invokes wrapAsync(operation, context): the operation is awaited
WrapAsyncCall ==
  /\ ehPc = "idle"
  /\ logCalls < MaxLogCalls
  /\ UNCHANGED nonEhVars
  /\ ehOp' = "wrapAsync"
  /\ ehPc' = "opAwait"
  /\ ehResult' = Pending
  /\ opOutcome' = Pending
  /\ UNCHANGED <<hpc, hResult, handleCalls, prompts, promptKind, logVars>>
  /\ UNCHANGED <<ehContext, ehMessage, selectedAction>>

\* the operation of wrapAsync settles
OperationSettle ==
  /\ ehPc = "opAwait"
  /\ UNCHANGED nonEhVars
  /\ UNCHANGED ehOp
  /\ \/ \E v \in OpResults :
          /\ opOutcome' = v
          /\ ehPc' = "done"
          /\ ehResult' = v
          /\ UNCHANGED <<hpc, hResult, handleCalls, prompts, promptKind, logVars>>
          /\ UNCHANGED <<ehContext, ehMessage, selectedAction>>
     \/ \E error \in ErrorShapes, metadata \in DataShapes :
          /\ opOutcome' = Rejected
          /\ HandleStart("wrapAsync", error, metadata, "error")

\* a caller invokes wrap(operation, context): the operation runs to its end
WrapCall ==
  /\ ehPc = "idle"
  /\ logCalls < MaxLogCalls
  /\ UNCHANGED nonEhVars
  /\ ehOp' = "wrap"
  /\ \/ \E v \in OpResults :
          /\ opOutcome' = v
          /\ ehPc' = "done"
          /\ ehResult' = v
          /\ UNCHANGED <<hpc, hResult, handleCalls, prompts, promptKind, logVars>>
          /\ UNCHANGED <<ehContext, ehMessage, selectedAction>>
     \/ \E error \in ErrorShapes, metadata \in DataShapes :
          /\ opOutcome' = Rejected
          /\ HandleStart("wrap", error, metadata, "error")

\* the prompt of handle() settles: 'Show Logs' shows the output channel; a
\* method awaiting handle() settles with it
PromptSettle ==
  /\ hpc = "promptAwait"
  /\ UNCHANGED nonEhVars
  /\ \E sel \in PromptOutcomes :
       /\ hResult' = IF sel = Rejected THEN Rejected ELSE "void"
       /\ selectedAction' = IF sel = Rejected THEN selectedAction ELSE sel
       /\ channelShown' = (channelShown \/ sel = "Show Logs")
       /\ IF ehPc = "handleAwait"
            THEN /\ ehPc' = "done"
                 /\ ehResult' = IF sel = Rejected THEN Rejected
                                ELSE AfterHandle(ehOp)
            ELSE UNCHANGED <<ehPc, ehResult>>
  /\ hpc' = "done"
  /\ UNCHANGED <<ehOp, opOutcome, handleCalls, prompts, promptKind>>
  /\ UNCHANGED <<ehContext, ehMessage>>
  /\ UNCHANGED <<logLevel, sink, logCall, logThrew, formats, logCalls>>

\* the caller consumes the result, the prompt having been answered
EhReturn ==
  /\ ehPc = "done"
  /\ hpc # "promptAwait"
  /\ UNCHANGED nonEhVars
  /\ ehOp' = "none"
  /\ ehPc' = "idle"
  /\ ehResult' = "none"
  /\ opOutcome' = "none"
  /\ hpc' = "idle"
  /\ hResult' = "none"
  /\ handleCalls' = 0
  /\ prompts' = 0
  /\ promptKind' = "none"
  /\ ehContext' = [component |-> "none", operation |-> "none"]
  /\ ehMessage' = <<>>
  /\ selectedAction' = "none"
  /\ UNCHANGED logVars

ErrorHandlerNext ==
  \/ HandleCall
  \/ HandleWithResultCall
  \/ WrapAsyncCall
  \/ OperationSettle
  \/ WrapCall
  \/ PromptSettle
  \/ EhReturn

\* ------------------------------------------------------------- strings
\* A string is the sequence of its characters, each a one-character string.
LowerCase ==
  <<"a", "b", "c", "d", "e", "f", "g", "h", "i", "j", "k", "l", "m",
    "n", "o", "p", "q", "r", "s", "t", "u", "v", "w", "x", "y", "z">>
UpperCase ==
  <<"A", "B", "C", "D", "E", "F", "G", "H", "I", "J", "K", "L", "M",
    "N", "O", "P", "Q", "R", "S", "T", "U", "V", "W", "X", "Y", "Z">>

ToUpperChar(c) ==
  IF \E i \in 1..26 : LowerCase[i] = c
    THEN UpperCase[CHOOSE i \in 1..26 : LowerCase[i] = c] ELSE c
ToLowerChar(c) ==
  IF \E i \in 1..26 : UpperCase[i] = c
    THEN LowerCase[CHOOSE i \in 1..26 : UpperCase[i] = c] ELSE c

\* String.prototype.toUpperCase / toLowerCase
toUpperCase(s) == [i \in 1..Len(s) |-> ToUpperChar(s[i])]
toLowerCase(s) == [i \in 1..Len(s) |-> ToLowerChar(s[i])]

\* whether `sub` occurs in s at position i
OccursAt(s, sub, i) ==
  /\ i + Len(sub) - 1 <= Len(s)
  /\ \A j \in 1..Len(sub) : s[i + j - 1] = sub[j]

\* String.prototype.includes
includes(s, sub) == \E i \in 1..(Len(s) + 1) : OccursAt(s, sub, i)

RECURSIVE Flatten(_)
\* the concatenation of a sequence of strings
Flatten(parts) ==
  IF parts = <<>> THEN <<>> ELSE Head(parts) \o Flatten(Tail(parts))

\* the texts made of at most n of the pieces
Concatenations(pieces, n) ==
  { Flatten(parts) : parts \in UNION { [1..k -> pieces] : k \in 0..n } }

\* no function applied, for the specifications of the stateful components
PureParked ==
  /\ called = "none"
  /\ input = "none"
  /\ output = "none"

\* ---------------------------------------------------------- activation
\* values of the 'logLevel' setting: the names of the four levels in every
\* casing, and names that are not levels.  Numeric strings, which the
\* reverse mapping of the enum resolves to member names, are not among them.
ConfigValues ==
  LET names == { <<"d", "e", "b", "u", "g">>, <<"i", "n", "f", "o">>,
                 <<"w", "a", "r", "n">>, <<"e", "r", "r", "o", "r">> }
      casings(name) ==
        { [i \in 1..Len(name) |-> IF i \in S THEN ToUpperChar(name[i])
                                             ELSE name[i]] :
            S \in SUBSET (1..Len(name)) }
  IN UNION { casings(n) : n \in names }
       \cup { <<>>, <<"o", "f", "f">>, <<"t", "r", "a", "c", "e">>,
             <<"w", "a", "r", "n", "i", "n", "g">>,
             <<"v", "e", "r", "b", "o", "s", "e">>,
             <<"i", "n", "f", "o", " ">> }

\* the argument activate() passes to setLogLevel:
\* LogLevel[setting.toUpperCase()] || LogLevel.INFO, where the lookup gives
\* the member's value or undefined, and undefined and 0 are falsy
ConfiguredLevel(logLevelSetting) ==
  LET key == toUpperCase(logLevelSetting)
      member ==
        CASE key = <<"D", "E", "B", "U", "G">> ->
               [defined |-> TRUE, value |-> DEBUG]
          [] key = <<"I", "N", "F", "O">> ->
               [defined |-> TRUE, value |-> INFO]
          [] key = <<"W", "A", "R", "N">> ->
               [defined |-> TRUE, value |-> WARN]
          [] key = <<"E", "R", "R", "O", "R">> ->
               [defined |-> TRUE, value |-> ERROR]
          [] OTHER -> [defined |-> FALSE, value |-> 0]
  IN IF ~member.defined \/ member.value = 0 THEN INFO ELSE member.value

\* activate(): info('... is activating...'), setLogLevel(configured level),
\* which announces itself by info, and info('... activated successfully').
\* The commands it registers and the welcome prompt touch no Logger state.
Activate ==
  /\ called = "none"
  /\ UNCHANGED nonPureVars
  /\ called' = "activate"
  /\ UNCHANGED input
  /\ LET level == ConfiguredLevel(input)
         \* the effect of info(message) under level l, after `before`
         infoUnder(l, before) ==
           LET r == Log("info", "none", "none", l) IN
             [sink |-> before.sink \o r.lines,
              formats |-> before.formats + r.formats]
         a == infoUnder(logLevel, [sink |-> sink, formats |-> formats])
         b == infoUnder(level, a)
         c == infoUnder(level, b)
     IN /\ output' = level
        /\ logLevel' = level
        /\ sink' = c.sink
        /\ formats' = c.formats
        /\ logThrew' = FALSE
        /\ logCall' = [method |-> "info", error |-> "none", data |-> "none",
                       level |-> "none"]
        /\ logCalls' = logCalls + 3
  /\ UNCHANGED channelShown

\* deactivate(): info('... deactivated')
Deactivate ==
  /\ called = "activate"
  /\ UNCHANGED nonPureVars
  /\ called' = "deactivate"
  /\ UNCHANGED <<input, output>>
  /\ LoggerWrites("info", "none", "none")
  /\ UNCHANGED <<logLevel, channelShown>>

\* ------------------------------------------------------ getUserMessage
\* the substrings getUserMessage looks for
Substring ==
  [ENOTFOUND |-> <<"E", "N", "O", "T", "F", "O", "U", "N", "D">>,
   s401 |-> <<"4", "0", "1">>,
   Unauthorized |->
     <<"U", "n", "a", "u", "t", "h", "o", "r", "i", "z", "e", "d">>,
   s403 |-> <<"4", "0", "3">>,
   Forbidden |-> <<"F", "o", "r", "b", "i", "d", "d", "e", "n">>,
   s404 |-> <<"4", "0", "4">>,
   NotFound |-> <<"N", "o", "t", " ", "F", "o", "u", "n", "d">>,
   rateLimit |-> <<"r", "a", "t", "e", " ", "l", "i", "m", "i", "t">>]

\* the canned sentences, each taken as one unit of text
Sentence ==
  [network |->
     <<"Network error: Unable to connect to GitHub. Please check your internet connection.">>,
   authentication |->
     <<"Authentication failed. Please sign in to GitHub again.">>,
   access |->
     <<"Access denied. You may not have permission for this operation.">>,
   notFound |->
     <<"Resource not found. The requested item may have been deleted or moved.">>,
   rateLimit |->
     <<"GitHub API rate limit exceeded. Please try again later.">>,
   unexpected |->
     <<"An unexpected error occurred. Please check the logs for more details.">>]

\* values handed to getUserMessage: an Error with a message, a string, or
\* anything else (undefined, null, a number, a plain object).  The messages
\* are made of at most MaxFragments fragments: the recognized substrings,
\* spellings of them in another letter case, parts of the status codes, and
\* other text.
ErrorValues ==
  LET fragments ==
        { Substring[f] : f \in DOMAIN Substring }
          \cup { <<"u", "n", "a", "u", "t", "h", "o", "r", "i", "z", "e", "d">>,
                <<"R", "a", "t", "e", " ", "L", "i", "m", "i", "t">>,
                <<"4", "0">>,
                <<"4">>,
                <<"3">>,
                <<" ">>,
                <<"t", "i", "m", "e", "o", "u", "t">> }
  IN { [kind |-> k, message |-> m] :
         k \in {"Error", "string"},
         m \in Concatenations(fragments, MaxFragments) }
       \cup { [kind |-> "other", message |-> <<>>] }

\* variant: the 403 rule is consulted before the 401 rule
getUserMessageForbiddenFirst(error) ==
  LET has(sub) == includes(error.message, sub) IN
  IF error.kind = "Error" THEN
    IF has(Substring.ENOTFOUND) THEN Sentence.network
    ELSE IF has(Substring.s403) \/ has(Substring.Forbidden)
      THEN Sentence.access
    ELSE IF has(Substring.s401) \/ has(Substring.Unauthorized)
      THEN Sentence.authentication
    ELSE IF has(Substring.s404) \/ has(Substring.NotFound)
      THEN Sentence.notFound
    ELSE IF has(Substring.rateLimit) THEN Sentence.rateLimit
    ELSE error.message
  ELSE IF error.kind = "string" THEN error.message
  ELSE Sentence.unexpected

\* getUserMessage(error)
getUserMessage(error) ==
  LET has(sub) == includes(error.message, sub) IN
  IF error.kind = "Error" THEN
    IF has(Substring.ENOTFOUND) THEN Sentence.network
    ELSE IF has(Substring.s401) \/ has(Substring.Unauthorized)
      THEN Sentence.authentication
    ELSE IF has(Substring.s403) \/ has(Substring.Forbidden)
      THEN Sentence.access
    ELSE IF has(Substring.s404) \/ has(Substring.NotFound)
      THEN Sentence.notFound
    ELSE IF has(Substring.rateLimit) THEN Sentence.rateLimit
    ELSE error.message
  ELSE IF error.kind = "string" THEN error.message
  ELSE Sentence.unexpected

\* handle() computes the sentence it will show (line 82)
GetUserMessageCall ==
  /\ called = "none"
  /\ UNCHANGED <<nonPureVars, logVars>>
  /\ called' = "getUserMessage"
  /\ output' = getUserMessage(input)
  /\ UNCHANGED input

\* ------------------------------------------------- Logger: sanitizeObject
\* sensitiveFields
sensitiveFields ==
  { <<"t", "o", "k", "e", "n">>,
    <<"p", "a", "s", "s", "w", "o", "r", "d">>,
    <<"s", "e", "c", "r", "e", "t">>,
    <<"a", "p", "i", "K", "e", "y">>,
    <<"a", "p", "i", "_", "k", "e", "y">>,
    <<"a", "c", "c", "e", "s", "s", "T", "o", "k", "e", "n">>,
    <<"a", "c", "c", "e", "s", "s", "_", "t", "o", "k", "e", "n">>,
    <<"r", "e", "f", "r", "e", "s", "h", "T", "o", "k", "e", "n">>,
    <<"r", "e", "f", "r", "e", "s", "h", "_", "t", "o", "k", "e", "n">>,
    <<"p", "r", "i", "v", "a", "t", "e", "K", "e", "y">>,
    <<"p", "r", "i", "v", "a", "t", "e", "_", "k", "e", "y">>,
    <<"a", "u", "t", "h", "o", "r", "i", "z", "a", "t", "i", "o", "n">> }

\* the replacement for the value of a sensitive key
REDACTED == <<"[", "R", "E", "D", "A", "C", "T", "E", "D", "]">>

\* A value: its type t ("string", "number", "null", "undefined", "array",
\* "object"), the characters s of a string or the digits of a number, and
\* the members of an array or object in order, each with its key (empty for
\* an array item) and its value.
Leaf(type, chars) == [t |-> type, s |-> chars, members |-> <<>>]
ArrayValue(items) ==
  [t |-> "array", s |-> <<>>,
   members |-> [i \in 1..Len(items) |-> [key |-> <<>>, value |-> items[i]]]]
ObjectValue(entries) == [t |-> "object", s |-> <<>>, members |-> entries]

\* `typeof value === 'object' && value !== null`
IsObjectOrArray(v) == v.t \in {"array", "object"}

RECURSIVE Payloads(_)
\* payloads nested to depth d at most
Payloads(d) ==
  LET \* keys: sensitive ones in several spellings, and others
      keys ==
        { <<"t", "o", "k", "e", "n">>,
          <<"a", "p", "i", "K", "e", "y">>,
          <<"A", "P", "I", "_", "K", "E", "Y">>,
          <<"u", "s", "e", "r", "P", "a", "s", "s", "w", "o", "r", "d">>,
          <<"A", "u", "t", "h", "o", "r", "i", "z", "a", "t", "i", "o", "n">>,
          <<"n", "a", "m", "e">>,
          <<"t", "o", "k">>,
          <<"a", "p", "i", "-", "k", "e", "y">> }
      number == Leaf("number", <<"1">>)
      leaves == {Leaf("string", <<"v">>), number, Leaf("null", <<>>)}
      \* a second entry of an object, beside the one under study
      siblings ==
        { [key |-> <<"i", "d">>, value |-> number],
          [key |-> <<"s", "e", "c", "r", "e", "t">>,
           value |-> Leaf("string", <<"v">>)] }
  IN IF d = 0 THEN leaves
     ELSE LET inner == Payloads(d - 1) IN
       leaves
         \cup { ArrayValue(<<v>>) : v \in inner }
         \cup { ArrayValue(<<number, v>>) : v \in inner }
         \cup { ObjectValue(<< [key |-> k, value |-> v] >>) :
                  k \in keys, v \in inner }
         \cup { ObjectValue(<< e, [key |-> k, value |-> v] >>) :
                  e \in siblings, k \in keys, v \in inner }

\* variant: the key is lowercased, the denylisted name is taken as written
IsSensitiveFieldAsWritten(key) ==
  LET lowerKey == toLowerCase(key) IN
    \E field \in sensitiveFields : includes(lowerKey, field)

\* sensitiveFields.some(field => lowerKey.includes(field.toLowerCase()))
IsSensitive(key) ==
  LET lowerKey == toLowerCase(key) IN
    \E field \in sensitiveFields : includes(lowerKey, toLowerCase(field))

RECURSIVE sanitizeObject(_)
\* sanitizeObject(obj)
sanitizeObject(obj) ==
  IF obj.t = "null" THEN obj
  ELSE IF ~IsObjectOrArray(obj) THEN obj
  ELSE IF obj.t = "array"
    THEN [obj EXCEPT !.members =
            [i \in 1..Len(obj.members) |->
               [key |-> <<>>, value |-> sanitizeObject(obj.members[i].value)]]]
  ELSE [obj EXCEPT !.members =
          [i \in 1..Len(obj.members) |->
             LET key == obj.members[i].key
                 value == obj.members[i].value
             IN [key |-> key,
                 value |-> IF IsSensitive(key) THEN Leaf("string", REDACTED)
                           ELSE IF IsObjectOrArray(value)
                             THEN sanitizeObject(value)
                           ELSE value]]]

\* formatMessage sanitizes the data of a record (line 166)
SanitizeObjectCall ==
  /\ called = "none"
  /\ UNCHANGED <<nonPureVars, logVars>>
  /\ called' = "sanitizeObject"
  /\ output' = sanitizeObject(input)
  /\ UNCHANGED input

\* ------------------------------------------------------- Logger: sanitize
\* the classes [a-zA-Z0-9], [a-f0-9] under the i flag, \w, \s and [^\s]
InClass(class, c) ==
  LET digit == c \in {"0", "1", "2", "3", "4", "5", "6", "7", "8", "9"}
      alnum == digit \/ \E i \in 1..26 : c \in {LowerCase[i], UpperCase[i]}
      space == c \in {" ", "\n", "\t"}
  IN CASE class = "alnum" -> alnum
       [] class = "hex" ->
            digit \/ ToLowerChar(c) \in {"a", "b", "c", "d", "e", "f"}
       [] class = "word" -> alnum \/ c = "_"
       [] class = "space" -> space
       [] class = "nonspace" -> ~space

\* the least number of a non-empty set of numbers
Least(S) == CHOOSE k \in S : \A j \in S : k <= j

\* length of the longest run of characters of the class in s from position i
RunLength(s, i, class) ==
  LET stops == { k \in i..Len(s) : ~InClass(class, s[k]) } IN
    IF stops = {} THEN Len(s) + 1 - i ELSE Least(stops) - i

\* number of characters after the prefix in /ghX_[a-zA-Z0-9]{36}/
TokenBodyLength == 36
\* least number of characters of /\b[a-f0-9]{40,}\b/
MinHexLength == 40
\* variant of sensitivePatterns: no pattern for the prefix ghr_
sensitivePatternsWithoutGhr ==
  << [kind |-> "token",
     word |-> <<"g", "h", "p", "_">>,
     replacement |->
       <<"g", "h", "p", "_", "[", "R", "E", "D", "A", "C", "T", "E", "D",
         "]">>],
     [kind |-> "token",
     word |-> <<"g", "h", "o", "_">>,
     replacement |->
       <<"g", "h", "o", "_", "[", "R", "E", "D", "A", "C", "T", "E", "D",
         "]">>],
     [kind |-> "token",
     word |-> <<"g", "h", "s", "_">>,
     replacement |->
       <<"g", "h", "s", "_", "[", "R", "E", "D", "A", "C", "T", "E", "D",
         "]">>],
     [kind |-> "hex",
     word |-> <<>>,
     replacement |->
       <<"[", "R", "E", "D", "A", "C", "T", "E", "D", "_", "T", "O", "K",
         "E", "N", "]">>],
     [kind |-> "header",
     word |-> <<"b", "e", "a", "r", "e", "r">>,
     replacement |->
       <<"a", "u", "t", "h", "o", "r", "i", "z", "a", "t", "i", "o", "n",
         ":", " ", "b", "e", "a", "r", "e", "r", " ", "[", "R", "E", "D",
         "A", "C", "T", "E", "D", "]">>],
     [kind |-> "header",
     word |-> <<"t", "o", "k", "e", "n">>,
     replacement |->
       <<"a", "u", "t", "h", "o", "r", "i", "z", "a", "t", "i", "o", "n",
         ":", " ", "t", "o", "k", "e", "n", " ", "[", "R", "E", "D", "A",
         "C", "T", "E", "D", "]">>] >>

\* sensitivePatterns, in order: the four token patterns, the bare
\* hexadecimal run, the two authorization headers
sensitivePatterns ==
  << [kind |-> "token",
     word |-> <<"g", "h", "p", "_">>,
     replacement |->
       <<"g", "h", "p", "_", "[", "R", "E", "D", "A", "C", "T", "E", "D",
         "]">>],
     [kind |-> "token",
     word |-> <<"g", "h", "o", "_">>,
     replacement |->
       <<"g", "h", "o", "_", "[", "R", "E", "D", "A", "C", "T", "E", "D",
         "]">>],
     [kind |-> "token",
     word |-> <<"g", "h", "s", "_">>,
     replacement |->
       <<"g", "h", "s", "_", "[", "R", "E", "D", "A", "C", "T", "E", "D",
         "]">>],
     [kind |-> "token",
     word |-> <<"g", "h", "r", "_">>,
     replacement |->
       <<"g", "h", "r", "_", "[", "R", "E", "D", "A", "C", "T", "E", "D",
         "]">>],
     [kind |-> "hex",
     word |-> <<>>,
     replacement |->
       <<"[", "R", "E", "D", "A", "C", "T", "E", "D", "_", "T", "O", "K",
         "E", "N", "]">>],
     [kind |-> "header",
     word |-> <<"b", "e", "a", "r", "e", "r">>,
     replacement |->
       <<"a", "u", "t", "h", "o", "r", "i", "z", "a", "t", "i", "o", "n",
         ":", " ", "b", "e", "a", "r", "e", "r", " ", "[", "R", "E", "D",
         "A", "C", "T", "E", "D", "]">>],
     [kind |-> "header",
     word |-> <<"t", "o", "k", "e", "n">>,
     replacement |->
       <<"a", "u", "t", "h", "o", "r", "i", "z", "a", "t", "i", "o", "n",
         ":", " ", "t", "o", "k", "e", "n", " ", "[", "R", "E", "D", "A",
         "C", "T", "E", "D", "]">>] >>

\* `word` occurs in s at position i, letter case ignored
OccursAtIgnoringCase(s, word, i) ==
  /\ i + Len(word) - 1 <= Len(s)
  /\ \A j \in 1..Len(word) : ToLowerChar(s[i + j - 1]) = ToLowerChar(word[j])

\* /authorization:\s*<scheme>\s+[^\s]+/gi at position i: the length of the
\* match, 0 when there is none
HeaderMatchLength(s, i, scheme) ==
  LET header == <<"a", "u", "t", "h", "o", "r", "i", "z", "a", "t", "i", "o",
                  "n", ":">>
  IN IF ~OccursAtIgnoringCase(s, header, i) THEN 0
     ELSE LET a == i + Len(header)
              b == a + RunLength(s, a, "space")
          IN IF ~OccursAtIgnoringCase(s, scheme, b) THEN 0
             ELSE LET c == b + Len(scheme)
                      d == c + RunLength(s, c, "space")
                      e == d + RunLength(s, d, "nonspace")
                  IN IF d = c \/ e = d THEN 0 ELSE e - i

\* the length of the match of a pattern at position i of s, 0 when none
MatchLength(pattern, s, i) ==
  CASE pattern.kind = "token" ->
         IF /\ OccursAt(s, pattern.word, i)
            /\ i + Len(pattern.word) + TokenBodyLength - 1 <= Len(s)
            /\ \A j \in 0..(TokenBodyLength - 1) :
                 InClass("alnum", s[i + Len(pattern.word) + j])
           THEN Len(pattern.word) + TokenBodyLength ELSE 0
    [] pattern.kind = "hex" ->
         IF i > 1 /\ InClass("word", s[i - 1]) THEN 0
         ELSE LET n == RunLength(s, i, "hex") IN
           IF /\ n >= MinHexLength
              /\ (i + n > Len(s) \/ ~InClass("word", s[i + n]))
             THEN n ELSE 0
    [] pattern.kind = "header" -> HeaderMatchLength(s, i, pattern.word)

RECURSIVE ReplaceFrom(_, _, _)
\* s.replace(pattern, replacement) with the g flag, from position i on: the
\* leftmost match at or after i is replaced, the search goes on behind it
ReplaceFrom(s, i, pattern) ==
  LET matches == { k \in i..Len(s) : MatchLength(pattern, s, k) > 0 } IN
    IF matches = {} THEN SubSeq(s, i, Len(s))
    ELSE LET k == Least(matches) IN
      SubSeq(s, i, k - 1) \o pattern.replacement
        \o ReplaceFrom(s, k + MatchLength(pattern, s, k), pattern)

RECURSIVE ApplyPatterns(_, _)
\* the loop of sanitize over the patterns left
ApplyPatterns(s, patterns) ==
  IF patterns = <<>> THEN s
  ELSE ApplyPatterns(ReplaceFrom(s, 1, Head(patterns)), Tail(patterns))

\* sanitize(message)
sanitize(message) == ApplyPatterns(message, sensitivePatterns)

\* -------------------------------------------------- Logger: record text
RECURSIVE Stringify(_, _, _)
RECURSIVE StringifyMembers(_, _, _, _)
\* JSON.stringify(value) and, with pretty, JSON.stringify(value, null, 2) at
\* nesting `indent`, for strings without characters that JSON escapes
Stringify(value, indent, pretty) ==
  CASE value.t = "string" -> <<"\"">> \o value.s \o <<"\"">>
    [] value.t = "number" -> value.s
    [] value.t = "null" -> <<"n", "u", "l", "l">>
    [] value.t \in {"array", "object"} ->
         LET open == IF value.t = "array" THEN "[" ELSE "{"
             close == IF value.t = "array" THEN "]" ELSE "}"
         IN IF value.members = <<>> THEN <<open, close>>
            ELSE <<open>>
                   \o StringifyMembers(value, 1, indent + 2, pretty)
                   \o (IF pretty THEN <<"\n">> \o [i \in 1..indent |-> " "]
                                 ELSE <<>>)
                   \o <<close>>

\* the members of an array or object from the i-th on
StringifyMembers(value, i, indent, pretty) ==
  IF i > Len(value.members) THEN <<>>
  ELSE LET m == value.members[i] IN
    (IF i > 1 THEN <<",">> ELSE <<>>)
      \o (IF pretty THEN <<"\n">> \o [j \in 1..indent |-> " "] ELSE <<>>)
      \o (IF value.t = "object"
            THEN <<"\"">> \o m.key \o <<"\"", ":">>
                   \o (IF pretty THEN <<" ">> ELSE <<>>)
            ELSE <<>>)
      \o Stringify(m.value, indent, pretty)
      \o StringifyMembers(value, i + 1, indent, pretty)

\* new Date().toISOString() at some moment
Timestamp ==
  <<"2", "0", "2", "5", "-", "0", "1", "-", "0", "1", "T", "0", "0", ":",
    "0", "0", ":", "0", "0", ".", "0", "0", "0", "Z">>

\* the name of a level as text
LevelText(level) ==
  CASE level = DEBUG -> <<"D", "E", "B", "U", "G">>
    [] level = INFO -> <<"I", "N", "F", "O">>
    [] level = WARN -> <<"W", "A", "R", "N">>
    [] level = ERROR -> <<"E", "R", "R", "O", "R">>

\* formatMessage(level, message, data) for data that serializes: the text
\* of the record
FormattedText(level, message, data) ==
  <<"[">> \o Timestamp \o <<"]", " ", "[">> \o LevelText(level)
    \o <<"]", " ">> \o sanitize(message)
    \o (IF data.t = "undefined" THEN <<>>
        ELSE <<"\n">> \o sanitize(Stringify(sanitizeObject(data), 0, TRUE)))

\* the `error` argument of error(): an Error with message and stack, or
\* any other value
ErrorArgument(kind, message, stack, value) ==
  [kind |-> kind, message |-> message, stack |-> stack, value |-> value]

\* error(): the errorDetails appended to the message
ErrorDetailsText(error) ==
  LET \* `if (error)` on a value that is not an Error
      truthy ==
        CASE error.value.t \in {"undefined", "null"} -> FALSE
          [] error.value.t = "string" -> error.value.s # <<>>
          [] error.value.t = "number" -> error.value.s # <<"0">>
          [] OTHER -> TRUE
  IN IF error.kind = "Error"
       THEN <<"\n", "E", "r", "r", "o", "r", ":", " ">> \o error.message
              \o <<"\n", "S", "t", "a", "c", "k", ":", " ">>
              \o sanitize(error.stack)
     ELSE IF truthy
       THEN <<"\n", "E", "r", "r", "o", "r", ":", " ">>
              \o Stringify(sanitizeObject(error.value), 0, FALSE)
     ELSE <<>>

\* the text appended to the output channel by debug / info / warn / error
\* when the level lets the record through
RecordText(method, message, error, data) ==
  FormattedText(MethodLevel(method),
                IF method = "error" THEN message \o ErrorDetailsText(error)
                                    ELSE message,
                data)

\* ------------------------------------------------- Logger: texts logged
\* Pieces of the texts logged.  ghpThenGhr and ghrThenGhp are tokens whose
\* last characters begin another token, of which `rest` is the rest: the
\* pattern of the second is applied after, or before, the pattern of the
\* first.  prefixGhp and body are a prefix and a body apart.
Text ==
  [ghpThenGhr |->
     <<"g", "h", "p", "_", "a", "a", "a", "a", "a", "a", "a", "a", "a", "a",
       "a", "a", "a", "a", "a", "a", "a", "a", "a", "a", "a", "a", "a", "a",
       "a", "a", "a", "a", "a", "a", "a", "a", "a", "g", "h", "r">>,
   gho |->
     <<"g", "h", "o", "_", "0", "1", "2", "3", "4", "5", "6", "7", "8", "9",
       "a", "b", "c", "d", "e", "f", "0", "1", "2", "3", "4", "5", "6", "7",
       "8", "9", "a", "b", "c", "d", "e", "f", "0", "1", "2", "3">>,
   ghs |->
     <<"g", "h", "s", "_", "a", "B", "3", "a", "B", "3", "a", "B", "3", "a",
       "B", "3", "a", "B", "3", "a", "B", "3", "a", "B", "3", "a", "B", "3",
       "a", "B", "3", "a", "B", "3", "a", "B", "3", "a", "B", "3">>,
   ghrThenGhp |->
     <<"g", "h", "r", "_", "x", "x", "x", "x", "x", "x", "x", "x", "x", "x",
       "x", "x", "x", "x", "x", "x", "x", "x", "x", "x", "x", "x", "x", "x",
       "x", "x", "x", "x", "x", "x", "x", "x", "x", "g", "h", "p">>,
   rest |->
     <<"_", "Z", "Z", "Z", "Z", "Z", "Z", "Z", "Z", "Z", "Z", "Z", "Z", "Z",
       "Z", "Z", "Z", "Z", "Z", "Z", "Z", "Z", "Z", "Z", "Z", "Z", "Z", "Z",
       "Z", "Z", "Z", "Z", "Z", "Z", "Z", "Z", "Z">>,
   prefixGhp |-> <<"g", "h", "p", "_">>,
   body |->
     <<"b", "b", "b", "b", "b", "b", "b", "b", "b", "b", "b", "b", "b", "b",
       "b", "b", "b", "b", "b", "b", "b", "b", "b", "b", "b", "b", "b", "b",
       "b", "b", "b", "b", "b", "b", "b", "b">>,
   hexRun |->
     <<"f", "f", "f", "f", "f", "f", "f", "f", "f", "f", "f", "f", "f", "f",
       "f", "f", "f", "f", "f", "f", "f", "f", "f", "f", "f", "f", "f", "f",
       "f", "f", "f", "f", "f", "f", "f", "f", "f", "f", "f", "f">>,
   bearerHeader |->
     <<"A", "u", "t", "h", "o", "r", "i", "z", "a", "t", "i", "o", "n", ":",
       " ", "B", "e", "a", "r", "e", "r", " ">>,
   short |-> <<"q", "7">>,
   space |-> <<" ">>]

\* the call of a logging method with the text in one of the places it can
\* stand in
LogCallOf(channel, text) ==
  LET call(method, message, error, data) ==
        [method |-> method, message |-> message, error |-> error,
         data |-> data]
      undefined == Leaf("undefined", <<>>)
      ErrorObject(message, stack) ==
        ErrorArgument("Error", message, stack, undefined)
      OtherError(value) == ErrorArgument("value", <<>>, <<>>, value)
      none == OtherError(undefined)
      failed == <<"f", "a", "i", "l", "e", "d">>
      note == <<"n", "o", "t", "e">>
      entry(key) ==
        ObjectValue(<< [key |-> key, value |-> Leaf("string", text)] >>)
  IN CASE channel = "debug message" -> call("debug", text, none, undefined)
       [] channel = "info message" -> call("info", text, none, undefined)
       [] channel = "warn message" -> call("warn", text, none, undefined)
       [] channel = "error message" -> call("error", text, none, undefined)
       [] channel = "Error.message" ->
            call("error", failed, ErrorObject(text, note), undefined)
       [] channel = "Error.stack" ->
            call("error", failed, ErrorObject(note, text), undefined)
       [] channel = "error string" ->
            call("error", failed, OtherError(Leaf("string", text)), undefined)
       [] channel = "error object" ->
            call("error", failed, OtherError(entry(note)), undefined)
       [] channel = "data string" ->
            call("info", note, none, Leaf("string", text))
       [] channel = "data object" -> call("info", note, none, entry(note))
       [] channel = "data array" ->
            call("warn", note, none,
                 ArrayValue(<<Leaf("number", <<"1">>), entry(note)>>))
       [] channel = "data sensitive key" ->
            call("info", note, none, entry(<<"t", "o", "k", "e", "n">>))

\* debug / info / warn / error called with a text in one of its arguments:
\* the record is appended when the level lets it through, `output` is its text
LogTextCall ==
  /\ called = "none"
  /\ UNCHANGED nonPureVars
  /\ called' = "log"
  /\ UNCHANGED input
  /\ LET c == LogCallOf(input.channel, input.text)
         \* the shape of the `error` argument and of the `data` argument
         shapeOfError ==
           IF c.error.kind = "Error" THEN "Error"
           ELSE CASE c.error.value.t = "undefined" -> "none"
                  [] c.error.value.t = "string" -> "string"
                  [] OTHER -> "object"
         shapeOfData == IF c.data.t = "undefined" THEN "none" ELSE "object"
     IN /\ LoggerWrites(c.method, shapeOfError, shapeOfData)
        /\ output' = IF LevelEnabled(c.method, logLevel)
                       THEN RecordText(c.method, c.message, c.error, c.data)
                       ELSE <<>>
  /\ UNCHANGED <<logLevel, channelShown>>

\* --------------------------------------------------------- specifications
\* the trust gate at rest, for the specification of the auth manager
TrustParked ==
  /\ TrustInit
  /\ isTrusted
  /\ folders = "one"

Init == AuthInit /\ TrustParked /\ LoggerInit /\ EhInit /\ PureParked

\* the Auth Session Manager under concurrent callers
Spec == Init /\ [][Next]_vars

TrustSpecInit == TrustInit /\ AuthInit /\ LoggerInit /\ EhInit /\ PureParked

\* the Workspace Trust Gate
TrustSpec == TrustSpecInit /\ [][TrustNext]_vars

\* the Auth Session Manager with the order of its lookups recorded; the
\* callers use authenticate, isAuthenticated, logout and the change event
RaceInit ==
  /\ TrustParked /\ LoggerInit /\ EhInit /\ PureParked
  /\ currentSession = Undefined
  /\ octokit = NoOctokit
  /\ op = [p \in Callers |-> "none"]
  /\ pc = [p \in Callers |-> "idle"]
  /\ result = [p \in Callers |-> "none"]
  /\ isAuth = [p \in Callers |-> "none"]
  /\ lookups = [p \in Callers |-> <<>>]
  /\ notice = [p \in Callers |-> "none"]
  /\ recording = TRUE
  /\ inFlight = <<>>
  /\ afterLogout = [p \in Callers |-> FALSE]
  /\ overtaken = [p \in Callers |-> FALSE]
  /\ lastSettle = NoSettle

RaceNext ==
  \E p \in Callers :
    \/ AuthenticateCall(p)
    \/ AuthenticateSettle(p)
    \/ IsAuthenticatedCall(p)
    \/ IsAuthenticatedSettle(p)
    \/ SessionChangeGithub(p)
    \/ RefreshSessionSettle(p)
    \/ LogoutCall(p)
    \/ LogoutSettle(p)
    \/ Return(p)

RaceSpec == RaceInit /\ [][RaceNext]_vars

\* a function applied once to an input drawn from `inputs`
PureInit(inputs) ==
  /\ AuthInit /\ TrustParked /\ LoggerInit /\ EhInit
  /\ called = "none"
  /\ input \in inputs
  /\ output = "none"

ActivateNext ==
  \/ Activate
  \/ Deactivate

\* activation under every value of the 'logLevel' setting
ActivateSpec == PureInit(ConfigValues) /\ [][ActivateNext]_vars

\* getUserMessage applied to every error value
ClassifySpec == PureInit(ErrorValues) /\ [][GetUserMessageCall]_vars

\* sanitizeObject applied to every payload
SanitizeObjectSpec ==
  PureInit(Payloads(MaxDepth)) /\ [][SanitizeObjectCall]_vars

\* a logging method called with every text in every place, the texts made of
\* at most MaxPieces pieces
LogTextSpec ==
  PureInit([channel :
              { "debug message", "info message", "warn message",
                "error message", "Error.message", "Error.stack",
                "error string", "error object", "data string", "data object",
                "data array", "data sensitive key" },
            text : Concatenations({ Text[p] : p \in DOMAIN Text }, MaxPieces)])
    /\ [][LogTextCall]_vars

\* the Logger
LoggerSpec == Init /\ [][LoggerNext]_vars

\* the Error Handler, writing to the Logger
ErrorHandlerSpec == Init /\ [][ErrorHandlerNext]_vars


\* ------------------------------------------------- helpers for the claims
\* the outcome of the lookup of caller p that settled last
LastOutcome(log) == log[Len(log)].outcome

SessionPresent == currentSession # Undefined
ClientPresent == getOctokit.defined

PublicAuthMethods ==
  {"authenticate", "isAuthenticated", "ensureAuthenticated", "logout"}

\* ----------------------------------------------------------------- claims

\* C1: at every observable point the held Session is present if and only if
\* the Client is present (getOctokit() is defined iff getUsername() is).
C1_StateCoupling == SessionPresent <=> ClientPresent

\* C2: when the interactive lookup of authenticate() yields no session or
\* fails, authenticate() returns false and the held Session and Client are
\* absent afterwards, whatever was held before.
C2_AuthenticateFailureClears ==
  [][\A p \in Callers :
       (pc[p] = "authAwait" /\ pc'[p] = "done"
          /\ LastOutcome(lookups'[p]) \in {Undefined, Rejected})
       => (result'[p] = "false" /\ ~SessionPresent' /\ ~ClientPresent')]_vars

\* C3: a lookup with createIfNone: true is issued only by authenticate();
\* every lookup issued by isAuthenticated() or by the change-event
\* refreshSession() has createIfNone: false.
C3_InteractiveOnlyByAuthenticate ==
  \A p \in Callers : \A i \in DOMAIN lookups[p] :
    /\ lookups[p][i].createIfNone => lookups[p][i].by = "authenticate"
    /\ lookups[p][i].by \in {"isAuthenticated", "refreshSession"}
         => ~lookups[p][i].createIfNone
    /\ op[p] \in {"isAuthenticated", "sessionChange"}
         => ~lookups[p][i].createIfNone

\* a silent check and a change-event refresh have both issued their lookup
C3_Witness ==
  \E p, q \in Callers :
    /\ op[p] = "isAuthenticated" /\ pc[p] = "done" /\ Len(lookups[p]) = 1
    /\ op[q] = "sessionChange" /\ pc[q] = "done" /\ Len(lookups[q]) = 1

\* C4 (as stated): a completed ensureAuthenticated() issued the silent lookup first; if
\* that lookup found a session it issued nothing else and returned true,
\* otherwise it issued exactly one further, interactive lookup and returned
\* what authenticate() returned for it.
C4_EnsureAuthenticatedLookups ==
  \A p \in Callers :
    (op[p] = "ensureAuthenticated" /\ pc[p] = "done") =>
      LET L == lookups[p] IN
        /\ Len(L) >= 1
        /\ ~L[1].createIfNone /\ L[1].silent
        /\ IF L[1].outcome \in Sessions
             THEN Len(L) = 1 /\ result[p] = "true"
             ELSE /\ Len(L) = 2
                  /\ L[2].createIfNone
                  /\ result[p] =
                       AuthenticateResume(L[2].outcome, Undefined, NoOctokit).ret

\* C4 (amended): a completed ensureAuthenticated() issued the silent lookup
\* first; isAuthenticated() reported true exactly when that lookup found a
\* session and adopting it did not raise (always when its Client can be
\* built); if it reported true nothing else was issued and true returned,
\* otherwise exactly one further, interactive lookup was issued and what
\* authenticate() returned for it was returned.
C4_EnsureAuthenticatedEscalatesOnFalse ==
  \A p \in Callers :
    (op[p] = "ensureAuthenticated" /\ pc[p] = "done") =>
      LET L == lookups[p] IN
        /\ Len(L) >= 1
        /\ ~L[1].createIfNone /\ L[1].silent
        /\ isAuth[p] = "true" => L[1].outcome \in Sessions
        /\ (L[1].outcome \in Sessions /\ OctokitConstructs(AccessToken(L[1].outcome)))
             => isAuth[p] = "true"
        /\ IF isAuth[p] = "true"
             THEN Len(L) = 1 /\ result[p] = "true"
             ELSE /\ Len(L) = 2
                  /\ L[2].createIfNone
                  /\ result[p] =
                       AuthenticateResume(L[2].outcome, Undefined, NoOctokit).ret

\* the silent check found nothing, the interactive lookup a session
C4_Witness ==
  \E p \in Callers :
    /\ op[p] = "ensureAuthenticated" /\ pc[p] = "done" /\ result[p] = "true"
    /\ Len(lookups[p]) = 2
    /\ lookups[p][1].outcome = Undefined /\ lookups[p][2].outcome = "s1"

\* C5: logout() called with no Session held returns true at once, shows no
\* notice and leaves Session and Client absent.
C5_LogoutIdempotent ==
  [][\A p \in Callers :
       (pc[p] = "idle" /\ op'[p] = "logout" /\ ~SessionPresent)
       => (pc'[p] = "done" /\ result'[p] = "true" /\ notice'[p] = "none"
             /\ ~SessionPresent' /\ ~ClientPresent')]_vars

\* a logout that cleared a session, and another one that found none
C5_Witness ==
  \E p, q \in Callers :
    /\ op[p] = "logout" /\ pc[p] = "done" /\ notice[p] = "shown" /\ result[p] = "true"
    /\ op[q] = "logout" /\ pc[q] = "done" /\ notice[q] = "none" /\ result[q] = "true"
    /\ ~SessionPresent /\ ~ClientPresent

\* C6: the step of logout() that starts showing the notice has cleared
\* Session and Client; the step that ends the call does not touch them and
\* returns true when the notice was shown, false when showing it failed.
C6_LogoutClearsBeforeNotice ==
  [][\A p \in Callers :
       /\ (pc[p] # "noticeAwait" /\ pc'[p] = "noticeAwait")
            => (SessionPresent /\ ~SessionPresent' /\ ~ClientPresent')
       /\ (pc[p] = "noticeAwait" /\ pc'[p] = "done")
            => /\ result'[p] = IF notice'[p] = "shown" THEN "true" ELSE "false"
               /\ UNCHANGED <<currentSession, octokit>>]_vars

\* a logout whose notice failed: false is returned, nothing is held
C6_Witness ==
  \E p \in Callers :
    /\ op[p] = "logout" /\ pc[p] = "done" /\ notice[p] = Rejected
    /\ result[p] = "false" /\ ~SessionPresent /\ ~ClientPresent

\* C7 (as stated): isAuthenticated() returns true exactly when its silent lookup yields
\* a session; when it yields a session and none is cached, the call ends
\* with Session and Client populated from that session.
C7_IsAuthenticatedAdopts ==
  [][\A p \in Callers :
       (pc[p] = "isAuthAwait" /\ pc'[p] # "isAuthAwait") =>
         LET o == LastOutcome(lookups'[p])
             r == IF op[p] = "ensureAuthenticated" THEN isAuth'[p] ELSE result'[p]
         IN /\ r = IF o \in Sessions THEN "true" ELSE "false"
            /\ (o \in Sessions /\ ~SessionPresent)
                 => (currentSession' = o /\ octokit' = NewOctokit(AccessToken(o)))]_vars

\* C7 (amended): isAuthenticated() returns true exactly when its silent
\* lookup yields a session and either a Session is already cached or the
\* Client can be built from the found one; it returns false when the lookup
\* yields none or fails or when building the Client raises; when the lookup
\* yields a session, none is cached and the Client is built, the call ends
\* with Session and Client populated from that session.
C7_IsAuthenticatedAdoptsWhenClientBuilds ==
  [][\A p \in Callers :
       (pc[p] = "isAuthAwait" /\ pc'[p] # "isAuthAwait") =>
         LET o == LastOutcome(lookups'[p])
             r == IF op[p] = "ensureAuthenticated" THEN isAuth'[p] ELSE result'[p]
             built == o \in Sessions /\ OctokitConstructs(AccessToken(o))
         IN /\ r = IF o \in Sessions /\ (SessionPresent \/ built)
                     THEN "true" ELSE "false"
            /\ (built /\ ~SessionPresent)
                 => (currentSession' = o /\ octokit' = NewOctokit(AccessToken(o)))]_vars

\* the only call made so far is an isAuthenticated() that adopted s2
C7_Witness ==
  \E p \in Callers :
    /\ op[p] = "isAuthenticated" /\ pc[p] = "done" /\ result[p] = "true"
    /\ lookups[p][1].outcome = "s2"
    /\ currentSession = "s2" /\ octokit = NewOctokit(AccessToken("s2"))
    /\ \A q \in Callers \ {p} : op[q] = "none"

\* C8 (as stated): after the refresh the manager holds exactly what the
\* lookup produced: the returned session and a Client built from it, or
\* nothing when the lookup returned nothing or failed; the handler resolves.
C8_RefreshHoldsLookupResult ==
  [][\A p \in Callers :
       (pc[p] = "refreshAwait" /\ pc'[p] = "done") =>
         LET o == LastOutcome(lookups'[p]) IN
           /\ Len(lookups'[p]) = 1 /\ ~lookups'[p][1].createIfNone
           /\ result'[p] = "void"
           /\ IF o \in Sessions
                THEN currentSession' = o /\ octokit' = NewOctokit(AccessToken(o))
                ELSE ~SessionPresent' /\ ~ClientPresent']_vars

\* C8 (amended): a session-change event for 'github' triggers one
\* non-interactive lookup; afterwards the manager holds the returned session
\* and a Client built from it when a session is returned and the Client can
\* be built, and nothing when the lookup returned nothing, failed, or
\* building the Client raised; the handler resolves in every case.
C8_RefreshHoldsLookupResultOrNothing ==
  [][\A p \in Callers :
       /\ (pc[p] = "idle" /\ op'[p] = "sessionChange")
            => (Len(lookups'[p]) = 1 /\ ~lookups'[p][1].createIfNone)
       /\ (pc[p] = "idle" /\ op'[p] = "sessionChangeOther")
            => (Len(lookups'[p]) = 0 /\ UNCHANGED <<currentSession, octokit>>)
       /\ (pc[p] = "refreshAwait" /\ pc'[p] = "done") =>
            LET o == LastOutcome(lookups'[p]) IN
              /\ Len(lookups'[p]) = 1
              /\ result'[p] = "void"
              /\ IF o \in Sessions /\ OctokitConstructs(AccessToken(o))
                   THEN currentSession' = o /\ octokit' = NewOctokit(AccessToken(o))
                   ELSE ~SessionPresent' /\ ~ClientPresent']_vars

\* a refresh that ended holding the session its lookup returned
C8_Witness ==
  \E p \in Callers :
    /\ op[p] = "sessionChange" /\ pc[p] = "done"
    /\ lookups[p][1].outcome = "s2"
    /\ currentSession = "s2" /\ octokit = NewOctokit(AccessToken("s2"))

\* C9: a completed authenticate(), isAuthenticated(), ensureAuthenticated()
\* or logout() resolved to a boolean; it never rejected.
C9_PublicMethodsResolveBoolean ==
  \A p \in Callers :
    /\ (op[p] \in PublicAuthMethods /\ pc[p] = "done")
         => result[p] \in {"true", "false"}
    /\ pc[p] = "ensureAwait" => isAuth[p] \in {"true", "false"}

\* calls that met a rejected lookup, a session without account data and a
\* failing notice have completed
C9_Witness ==
  \E p, q \in Callers :
    /\ op[p] \in {"authenticate", "ensureAuthenticated"} /\ pc[p] = "done"
    /\ LastOutcome(lookups[p]) \in {Rejected, "sNoAccount"}
    /\ op[q] = "logout" /\ pc[q] = "done" /\ notice[q] = Rejected

\* C10: every modal is presented by a round that read the trust flag as
\* false, and a round that reads the flag as true returns true without
\* presenting a modal, opening a URI or invoking the trust command.
C10_TrustedRoundReturnsTrue ==
  [][/\ modals' > modals => (rounds' = rounds + 1 /\ ~isTrusted)
     /\ (rounds' = rounds + 1 /\ isTrusted)
          => (tpc' = "done" /\ tResult' = "true"
                /\ UNCHANGED <<modals, uriOpens, trustCmds>>)]_vars

\* trust was granted while the documentation was open: the second round
\* returned true after one modal
C10_Witness ==
  /\ tpc = "done" /\ tResult = "true"
  /\ rounds = 2 /\ modals = 1 /\ uriOpens = 1 /\ trustCmds = 0

\* C11: under TrustSpec, a call that ends with the user picking "Cancel" or
\* dismissing the modal, after n picks of "Learn More" (n = uriOpens), has
\* resolved false, has presented exactly n+1 modals (one per invocation), has
\* opened the documentation URI exactly n times and has never invoked the
\* trust-management command.
C11_LearnMoreThenCancel ==
  (tpc = "done" /\ selection \in {"Cancel", Undefined}) =>
     /\ tResult = "false"
     /\ modals = uriOpens + 1
     /\ rounds = modals
     /\ trustCmds = 0

\* two picks of "Learn More", then "Cancel"
C11_Witness ==
  /\ tpc = "done"
  /\ selection = "Cancel"
  /\ tResult = "false"
  /\ uriOpens = 2
  /\ modals = 3
  /\ trustCmds = 0
  /\ ~isTrusted

\* C12 (as stated): once the user has picked "Trust Workspace", the call
\* invokes 'workbench.trust.manage' exactly once and returns true, whatever
\* the trust flag is afterwards.
C12_TrustWorkspaceReturnsTrue ==
  /\ (selection = "Trust Workspace") => trustCmds = 1
  /\ (tpc = "done" /\ selection = "Trust Workspace") => tResult = "true"

\* C13 (as stated): validateWorkspace() without a folder returns false with
\* exactly one error message and no modal, whatever the trust flag; with a
\* folder it shows no error message.
C13_ValidateWorkspaceFolders ==
  (tOp = "validateWorkspace") =>
     IF hasWorkspace(folders)
       THEN errorMsgs = 0
       ELSE /\ errorMsgs = 1
            /\ modals = 0
            /\ rounds = 0
            /\ tpc = "done" => tResult = "false"

\* C14 (as stated): every call of ensureTrustedWorkspace() and
\* validateWorkspace() settles to a boolean, never to a rejection.
C14_TrustGateResolvesBoolean ==
  (tpc = "done") => tResult \in {"true", "false"}

\* C15 (as stated): under ErrorHandlerSpec, handle() never raises, whatever
\* the error value, the severity and the fate of the prompt: a finished
\* handle() has resolved, and a finished handleWithResult() has resolved to
\* false.
C15_HandleNeverRaises ==
  (ehOp \in {"handle", "handleWithResult"} /\ ehPc = "done") =>
     ehResult = AfterHandle(ehOp)

\* C16: under ErrorHandlerSpec, wrapAsync resolves to the operation's result
\* without invoking handle() when the operation resolves; when it rejects,
\* handle() is invoked exactly once, and wrapAsync has resolved to undefined
\* only if handle() has completed with its prompt answered; until then
\* wrapAsync is pending.
C16_WrapAsyncAwaitsHandle ==
  (ehOp = "wrapAsync") =>
     /\ (opOutcome \in OpResults) =>
           (ehPc = "done" /\ ehResult = opOutcome /\ handleCalls = 0)
     /\ (opOutcome = Rejected) =>
           /\ handleCalls = 1
           /\ (ehPc = "done" /\ ehResult = Undefined) =>
                 (hpc = "done" /\ hResult = "void" /\ prompts = 1)
           /\ (hpc = "promptAwait") =>
                 (ehPc = "handleAwait" /\ ehResult = Pending)

\* the operation rejected, the prompt was answered, wrapAsync resolved
C16_Witness ==
  /\ ehOp = "wrapAsync"
  /\ opOutcome = Rejected
  /\ ehPc = "done"
  /\ ehResult = Undefined
  /\ hpc = "done"
  /\ handleCalls = 1
  /\ prompts = 1

\* C17: under ErrorHandlerSpec, wrap is synchronous and never throws: when
\* the operation returns, wrap returns its result and handle() is not
\* invoked; when it throws, handle() is started exactly once and wrap has
\* returned undefined, whether or not the prompt has been answered.
C17_WrapReturnsAtOnce ==
  (ehOp = "wrap") =>
     /\ ehPc = "done"
     /\ ehResult # Rejected
     /\ (opOutcome \in OpResults) => (ehResult = opOutcome /\ handleCalls = 0)
     /\ (opOutcome = Rejected) => (ehResult = Undefined /\ handleCalls = 1)

\* wrap has returned undefined while the prompt of handle() is unanswered
C17_Witness ==
  /\ ehOp = "wrap"
  /\ opOutcome = Rejected
  /\ ehPc = "done"
  /\ ehResult = Undefined
  /\ handleCalls = 1
  /\ hpc = "promptAwait"

\* C18 (as stated): under LoggerSpec, a call of debug / info / warn / error
\* appends exactly one line, formatted once, when its level is at or above
\* the minimum level, and appends and formats nothing when it is below; so
\* every call of error() appends a line.
C18_LevelFiltering ==
  [][(logCalls' = logCalls + 1
        /\ logCall'.method \in {"debug", "info", "warn", "error"})
      => IF MethodLevel(logCall'.method) >= logLevel
           THEN /\ Len(sink') = Len(sink) + 1
                /\ SubSeq(sink', 1, Len(sink)) = sink
                /\ sink'[Len(sink')].level
                     = LogLevelName(MethodLevel(logCall'.method))
                /\ formats' = formats + 1
           ELSE /\ sink' = sink
                /\ formats' = formats]_vars

\* C19 (as stated): under LoggerSpec, setLogLevel(level) makes the held level
\* the requested one and appends one INFO record to the sink, for each of the
\* four levels.
C19_SetLogLevelAnnounces ==
  [][(logCalls' = logCalls + 1 /\ logCall'.method = "setLogLevel")
      => /\ LogLevelName(logLevel') = logCall'.level
         /\ Len(sink') = Len(sink) + 1
         /\ sink'[Len(sink')].level = "INFO"]_vars

\* C20 (as stated): under LoggerSpec, error(message, error, data) never
\* raises and always emits a record, whatever the shapes of `error` and
\* `data`; a payload that fails to serialize leaves an inline error marker.
C20_ErrorNeverRaises ==
  [][(logCalls' = logCalls + 1 /\ logCall'.method = "error")
      => /\ ~logThrew'
         /\ Len(sink') = Len(sink) + 1
         /\ ~Serializes(logCall'.data)
              => sink'[Len(sink')].data = "[Error formatting data]"]_vars

\* a session from which the Client can be built and whose account is set
GoodSession(o) ==
  o \in Sessions /\ OctokitConstructs(AccessToken(o)) /\ AccountOk(o)

\* caller p takes the step in which its lookup settles
LookupSettles(p) ==
  /\ pc[p] \in {"authAwait", "isAuthAwait", "refreshAwait"}
  /\ pc'[p] # pc[p]

\* C26: under Spec, when isAuthenticated() resumes while a Session is cached,
\* Session and Client are left as they are, whatever the silent lookup
\* produced; it returns false when the lookup produced no session or failed.
C26_IsAuthenticatedKeepsCached ==
  [][\A p \in Callers :
       (pc[p] = "isAuthAwait" /\ pc'[p] # "isAuthAwait" /\ SessionPresent) =>
         LET o == LastOutcome(lookups'[p])
             r == IF op[p] = "ensureAuthenticated" THEN isAuth'[p] ELSE result'[p]
         IN /\ currentSession' = currentSession
            /\ octokit' = octokit
            /\ (o \notin Sessions) => r = "false"]_vars

\* isAuthenticated() returned false while Session and Client are held
C26_Witness ==
  \E p \in Callers :
    /\ op[p] = "isAuthenticated" /\ pc[p] = "done" /\ result[p] = "false"
    /\ LastOutcome(lookups[p]) \in {Undefined, Rejected}
    /\ GoodSession(currentSession)
    /\ ClientPresent
    /\ getUsername = <<"label", currentSession>>
    /\ \A q \in Callers \ {p} : pc[q] = "idle"

\* C27 (as stated): under RaceSpec, a lookup that was in flight when logout()
\* cleared the Session does not re-populate the Session when it settles.
C27_StaleLookupDoesNotRepopulate ==
  [][\A p \in Callers :
       (LookupSettles(p) /\ afterLogout[p] /\ ~SessionPresent) =>
         (currentSession' = Undefined /\ octokit' = NoOctokit)]_vars

\* C27 (amended): under RaceSpec, the Session cleared by logout() is
\* re-populated by the first lookup that settles to a usable session, also
\* by one that was in flight when logout() ran.
C27_StaleLookupRepopulates ==
  [][\A p \in Callers :
       (LookupSettles(p) /\ afterLogout[p] /\ ~SessionPresent) =>
         LET o == LastOutcome(lookups'[p]) IN
           GoodSession(o) =>
             (currentSession' = o /\ octokit' = NewOctokit(AccessToken(o)))]_vars

\* an authenticate() issued before logout() resumed after it and stored its
\* session
C27_Witness ==
  \E p \in Callers :
    /\ lastSettle.by = p /\ lastSettle.afterLogout
    /\ op[p] = "authenticate" /\ pc[p] = "done" /\ result[p] = "true"
    /\ currentSession = LastOutcome(lookups[p])
    /\ ClientPresent
    /\ \E q \in Callers \ {p} : op[q] = "logout" /\ result[q] \in {Pending, "true"}

C29_SilentReauthentication ==
  [][\A p \in Callers :
       /\ ((pc[p] = "idle" /\ op'[p] = "logout") \/ pc[p] = "noticeAwait")
            => lookups'[p] = <<>>
       /\ (pc[p] = "isAuthAwait" /\ pc'[p] # "isAuthAwait" /\ ~SessionPresent) =>
            LET o == LastOutcome(lookups'[p])
                r == IF op[p] = "ensureAuthenticated" THEN isAuth'[p] ELSE result'[p]
            IN (o \in Sessions) =>
                 /\ r = "true"
                 /\ currentSession' = o
                 /\ octokit' = NewOctokit(AccessToken(o))
                 /\ \A i \in 1..Len(lookups'[p]) : ~lookups'[p][i].createIfNone
       /\ (pc[p] = "ensureAwait" /\ pc'[p] # "ensureAwait" /\ isAuth[p] = "true") =>
            (result'[p] = "true" /\ lookups'[p] = lookups[p])]_vars

\* C29 (amended): as C29, for a session from which the Client can be built;
\* when building the Client raises, isAuthenticated() returns false.
C29_SilentReauthenticationWhenClientBuilds ==
  [][\A p \in Callers :
       /\ ((pc[p] = "idle" /\ op'[p] = "logout") \/ pc[p] = "noticeAwait")
            => lookups'[p] = <<>>
       /\ (pc[p] = "isAuthAwait" /\ pc'[p] # "isAuthAwait" /\ ~SessionPresent) =>
            LET o == LastOutcome(lookups'[p])
                r == IF op[p] = "ensureAuthenticated" THEN isAuth'[p] ELSE result'[p]
            IN /\ (o \in Sessions /\ OctokitConstructs(AccessToken(o))) =>
                    /\ r = "true"
                    /\ currentSession' = o
                    /\ octokit' = NewOctokit(AccessToken(o))
                    /\ \A i \in 1..Len(lookups'[p]) : ~lookups'[p][i].createIfNone
               /\ (o \in Sessions /\ ~OctokitConstructs(AccessToken(o))) =>
                    r = "false"
       /\ (pc[p] = "ensureAwait" /\ pc'[p] # "ensureAwait" /\ isAuth[p] = "true") =>
            (result'[p] = "true" /\ lookups'[p] = lookups[p])]_vars

\* logout() succeeded and an ensureAuthenticated() returned true on its
\* single silent lookup, with Session and Client populated from it
C29_Witness ==
  \E p, q \in Callers :
    /\ op[q] = "logout" /\ pc[q] = "done" /\ result[q] = "true"
    /\ notice[q] = "shown"
    /\ op[p] = "ensureAuthenticated" /\ pc[p] = "done" /\ result[p] = "true"
    /\ Len(lookups[p]) = 1
    /\ currentSession = LastOutcome(lookups[p])
    /\ octokit = NewOctokit(AccessToken(currentSession))

\* C25: under TrustSpec, with host calls that resolve, a call of
\* ensureTrustedWorkspace() returns only in a step that read the trust flag
\* as true or after a selection other than "Learn More"; every such read or
\* selection ends the call (after the trust command, for "Trust Workspace");
\* a selection of "Learn More" never ends it: it opens the documentation and,
\* unless the flag is then read as true, presents the modal again.
C25_ReturnsOnlyOnTrustOrChoice ==
  [][/\ (tpc # "done" /\ tpc' = "done" /\ tResult' # Rejected /\ rounds' >= 1) =>
          \/ /\ tpc \in {"idle", "uriAwait"}
             /\ IsTrustedRead(isTrusted)
             /\ tResult' = "true"
          \/ /\ tpc \in {"modalAwait", "cmdAwait"}
             /\ selection' \in {"Trust Workspace", "Cancel", Undefined}
     /\ (tpc \in {"idle", "uriAwait"} /\ rounds' = rounds + 1) =>
          IF IsTrustedRead(isTrusted)
            THEN tpc' = "done" /\ tResult' = "true"
            ELSE tpc' = "modalAwait" /\ modals' = modals + 1 /\ tResult' = Pending
     /\ (tpc = "modalAwait" /\ selection' \in {"Cancel", Undefined}) =>
          tpc' = "done"
     /\ (tpc = "modalAwait" /\ selection' = "Trust Workspace") =>
          tpc' = "cmdAwait"
     /\ (tpc = "cmdAwait" /\ tpc' # "cmdAwait") => tpc' = "done"
     /\ (tpc = "modalAwait" /\ selection' = "Learn More") =>
          (tpc' = "uriAwait" /\ tResult' = Pending /\ uriOpens' = uriOpens + 1)
     /\ (tpc = "uriAwait" /\ tpc' # "uriAwait" /\ tResult' # Rejected) =>
          rounds' = rounds + 1]_vars

\* the user picked "Learn More" at every modal so far, the workspace is
\* untrusted and the call has not returned: the modal is up again
C25_Witness ==
  /\ tOp = "ensureTrustedWorkspace"
  /\ tpc = "modalAwait"
  /\ tResult = Pending
  /\ ~isTrusted
  /\ rounds = MaxRounds
  /\ uriOpens = MaxRounds - 1
  /\ modals = MaxRounds

\* C23 (as stated): under ErrorHandlerSpec, every invocation of handle()
\* appends the ERROR record, with the message naming component and operation
\* or their defaults, and presents exactly one prompt, the record first; the
\* output channel is shown only by the step in which the prompt resolves to
\* "Show Logs".
C23_RecordThenOnePrompt ==
  [][/\ (handleCalls' = handleCalls + 1) =>
          /\ ehMessage' = <<"Error in ",
                            IF ehContext'.component = Undefined
                              THEN "Unknown component" ELSE ehContext'.component,
                            " during ",
                            IF ehContext'.operation = Undefined
                              THEN "Unknown operation" ELSE ehContext'.operation>>
          /\ logCall'.method = "error"
          /\ Len(sink') = Len(sink) + 1
          /\ sink'[Len(sink')].level = "ERROR"
          /\ prompts' = 1
     /\ (handleCalls' >= 1) => prompts' = 1
     /\ (~channelShown /\ channelShown') =>
          (hpc = "promptAwait" /\ hpc' = "done" /\ selectedAction' = "Show Logs")]_vars

\* C30 (as stated): under ActivateSpec, once activate() has run the Logger's
\* minimum level is the level whose name is the 'logLevel' setting, letter
\* case ignored, and INFO when the setting names no level.
C30_ConfiguredLevelSelected ==
  (called # "none") =>
     LET name == toLowerCase(input) IN
       logLevel = CASE name = <<"d", "e", "b", "u", "g">> -> DEBUG
                    [] name = <<"i", "n", "f", "o">> -> INFO
                    [] name = <<"w", "a", "r", "n">> -> WARN
                    [] name = <<"e", "r", "r", "o", "r">> -> ERROR
                    [] OTHER -> INFO

\* C24: under ClassifySpec, for an Error the sentence is that of the earliest
\* listed rule one of whose substrings occurs in the message, and the raw
\* message when none occurs; a string yields itself; any other value yields
\* the generic sentence.
C24_FirstMatchWins ==
  LET \* the rules in the order listed: the substrings of each, its sentence
      rules ==
        << [subs |-> {Substring.ENOTFOUND}, sentence |-> Sentence.network],
           [subs |-> {Substring.s401, Substring.Unauthorized},
            sentence |-> Sentence.authentication],
           [subs |-> {Substring.s403, Substring.Forbidden},
            sentence |-> Sentence.access],
           [subs |-> {Substring.s404, Substring.NotFound},
            sentence |-> Sentence.notFound],
           [subs |-> {Substring.rateLimit}, sentence |-> Sentence.rateLimit] >>
      \* the rules whose substrings occur in the message
      hit == { i \in 1..Len(rules) :
                 \E sub \in rules[i].subs : includes(input.message, sub) }
  IN (called # "none") =>
       CASE input.kind = "Error" ->
              IF hit = {} THEN output = input.message
              ELSE \E i \in hit :
                     /\ \A j \in hit : i <= j
                     /\ output = rules[i].sentence
         [] input.kind = "string" -> output = input.message
         [] OTHER -> output = Sentence.unexpected

\* a message with a 403 before a 401 in it was classified by the 401 rule
C24_Witness ==
  /\ called = "getUserMessage"
  /\ input.kind = "Error"
  /\ input.message = Substring.s403 \o Substring.s401
  /\ includes(input.message, Substring.s403)
  /\ includes(input.message, Substring.s401)
  /\ output = Sentence.authentication

RECURSIVE Redacts(_, _)
\* `out` is `in` with the value of every key whose lowercase form contains a
\* denylisted substring replaced by '[REDACTED]', nothing below such a key
\* visited, and every other value kept (members of arrays and objects
\* treated the same way, in place)
Redacts(in, out) ==
  LET denylist == { toLowerCase(field) : field \in sensitiveFields }
      denylisted(key) == \E sub \in denylist : includes(toLowerCase(key), sub)
  IN IF in.t \notin {"array", "object"} THEN out = in
     ELSE /\ out.t = in.t
          /\ Len(out.members) = Len(in.members)
          /\ \A i \in 1..Len(in.members) :
               /\ out.members[i].key = in.members[i].key
               /\ IF in.t = "object" /\ denylisted(in.members[i].key)
                    THEN out.members[i].value = Leaf("string", REDACTED)
                    ELSE Redacts(in.members[i].value, out.members[i].value)

\* C21: under SanitizeObjectSpec, in the sanitized payload every key whose
\* lowercase form contains a denylisted substring has the value '[REDACTED]',
\* whatever the type of the original value and without descending into it,
\* at every depth of nesting through objects and arrays; every other value
\* is kept, its own members sanitized in the same way.
C21_DenylistedKeysRedacted ==
  (called = "sanitizeObject") => Redacts(input, output)

\* an object under the key 'name' of another object: it was entered, the
\* null under its key 'apiKey' was replaced, and the entry 'id' was kept
C21_Witness ==
  /\ called = "sanitizeObject"
  /\ LET apiKey == <<"a", "p", "i", "K", "e", "y">>
         name == <<"n", "a", "m", "e">>
         id == [key |-> <<"i", "d">>, value |-> Leaf("number", <<"1">>)]
     IN /\ input =
             ObjectValue(<< id,
               [key |-> name,
                value |-> ObjectValue(<< [key |-> apiKey,
                                          value |-> Leaf("null", <<>>)] >>)] >>)
        /\ output =
             ObjectValue(<< id,
               [key |-> name,
                value |->
                  ObjectValue(<< [key |-> apiKey,
                                  value |-> Leaf("string", REDACTED)] >>)] >>)

\* the well-formed provider tokens in a text: one of the four prefixes
\* followed by 36 alphanumeric characters
TokensIn(text) ==
  LET prefixes == { <<"g", "h", "p", "_">>, <<"g", "h", "o", "_">>,
                    <<"g", "h", "s", "_">>, <<"g", "h", "r", "_">> }
  IN { SubSeq(text, i, i + 39) :
         i \in { k \in 1..Len(text) :
                   /\ k + 39 <= Len(text)
                   /\ \E prefix \in prefixes : OccursAt(text, prefix, k)
                   /\ \A j \in 4..39 : InClass("alnum", text[k + j]) } }

\* C22: under LogTextSpec, whatever place of a logging call a text stands in
\* (the message, the message or the stack of an Error passed to error(), a
\* non-Error value passed to error(), a string value inside the data), no
\* well-formed provider token of the text occurs in the record emitted.
C22_NoTokenInRecord ==
  (called = "log") =>
     \A token \in TokensIn(input.text) : ~includes(output, token)

\* a stack with a token followed by more characters was logged: the record
\* has the prefix and the marker in place of the token
C22_Witness ==
  /\ called = "log"
  /\ input.channel = "Error.stack"
  /\ input.text = Text.ghs \o Text.short
  /\ TokensIn(input.text) = {Text.ghs}
  /\ includes(output, <<"S", "t", "a", "c", "k", ":", " ", "g", "h", "s", "_">>
                        \o REDACTED \o Text.short)
  /\ Len(sink) = 1

============================================================================
